---- MODULE Spec2Model ----
(***************************************************************************)
(* Per-CPU control state machine, PSCI emulation and trap exit path of the *)
(* 32-bit ARM port of the Jailhouse hypervisor                             *)
(* (hypervisor/arch/arm/control.c, psci.c, traps.c).                       *)
(*                                                                         *)
(* Every physical CPU is a process.  pc[c] is the position of CPU c:       *)
(* "guest" while it executes guest code (or sits in the WFI loop of the    *)
(* parking page), any other value while it runs hypervisor code with       *)
(* interrupts masked.  A step is one access to memory shared between CPUs, *)
(* or one critical section whose accesses are all protected by the lock.   *)
(***************************************************************************)
EXTENDS Integers, FiniteSets, Sequences, TLC

(* ------------------------------ bounds --------------------------------- *)
MaxCalls == 3
(* the largest number of list registers the interrupt controller has *)
MaxLr == 2

(* ---------------------------- constants -------------------------------- *)
(* Machine words are modelled WORD_BITS wide instead of 32 bits wide; the    *)
(* all-ones word is PSCI_INVALID_ADDRESS.  PSCI function ids are given by   *)
(* their function number, the low bits of 0x840000nn.                       *)
WORD_BITS == 16
PSCI_INVALID_ADDRESS == 65535
PSCI_VERSION == 0
PSCI_CPU_OFF == 2
PSCI_CPU_ON_32 == 3
PSCI_AFFINITY_INFO_32 == 4
PSCI_UNSUPPORTED_FN == 8
PSCI_SUCCESS == 0
PSCI_NOT_SUPPORTED == -1
PSCI_DENIED == -3
PSCI_ALREADY_ON == -4
PSCI_CPU_IS_ON == 0
PSCI_CPU_IS_OFF == 1
NUM_ARG_REGS == 4

CPUs == 0 .. 2
NoCpu == -1
ROOT_CELL == 0
GUEST_CELL == 1
CellIds == 0 .. 2
EEXIST == 17
EBUSY == 16
GICH_LR_VIRT_ID_MASK == 1023
(* interrupt ids handed to gic_inject_irq: an SGI, a PPI and two SPIs *)
IrqIds == {1, 27, 33, 34}
PARKING_MM == "parking"
CELL_MM == "cell"
(* CPU_ON arguments <<entry, context>> the guests use *)
CpuOnArgs == {<<8, 5>>, <<16, 6>>}
GuestPCs == {8}
PsciFunctions ==
  {PSCI_VERSION, PSCI_CPU_OFF, PSCI_CPU_ON_32, PSCI_AFFINITY_INFO_32,
   PSCI_UNSUPPORTED_FN}

VARIABLES per_cpu, control_lock, sgi_event, ELR_hyp, vcpu_mm, usr, pc, frame,
          calls, hist, cells, mgmt, gic, trap

vars == <<per_cpu, control_lock, sgi_event, ELR_hyp, vcpu_mm, usr, pc, frame,
          calls, hist, cells, mgmt, gic, trap>>

(* the state of the cell lifecycle, of the list registers and of the trap   *)
(* dispatcher, which the CPU control operations leave alone                 *)
other_vars == <<cells, mgmt, gic, trap>>

(* History per target CPU (not program state):                              *)
(*   req  - <<entry, context>> written by the latest successful CPU_ON, as  *)
(*          long as no check_events pass of the target has consumed reset   *)
(*   kick - <<entry, context>> of the CPU_ON call whose SGI_EVENT is        *)
(*          pending at the target                                           *)
(*   suspends - number of arch_suspend_cpu calls since the last             *)
(*          arch_resume_cpu                                                 *)
(*   flush - owed: flush_vcpu_caches was requested of the CPU and the CPU   *)
(*          has not flushed its TLBs since; late: a request was made since  *)
(*          the CPU's latest check_events pass began; done: TLB flushes of  *)
(*          that pass; flagged: flush_vcpu_caches as the pass began;        *)
(*          inline: the CPU flushed in its latest                           *)
(*          arch_flush_cell_vcpu_caches call                                *)
NoArgs == <<>>

(* conversion to unsigned long *)
U32(x) == x % (2 ^ WORD_BITS)

ZeroRegs == [r \in 0 .. (NUM_ARG_REGS - 1) |-> 0]

(* on_running is a history field: the request (park or reset) a management *)
(* call made of a target that was executing guest code, unsuspended        *)
IdleFrame ==
  [target |-> NoCpu, reset |-> FALSE, ctx_pc |-> 0, exit |-> "none",
   on_running |-> "none", cell |-> 0]

NoFlush ==
  [owed |-> FALSE, late |-> FALSE, done |-> 0, flagged |-> FALSE,
   inline |-> FALSE]

cpu_set(cell) == cells[cell].cpu_set

(* a lookup over all CPUs of the system instead of the cell's cpu_set *)
arm_cpu_virt2phys_any_cell(cell, virt_id) ==
  LET hits == {c \in CPUs : per_cpu[c].virt_id = virt_id}
  IN  IF hits = {} THEN NoCpu
      ELSE CHOOSE c \in hits : \A d \in hits : c <= d

(* for_each_cpu walks the set in ascending order and returns the first hit *)
arm_cpu_virt2phys(cell, virt_id) ==
  LET hits == {c \in cpu_set(cell) : per_cpu[c].virt_id = virt_id}
  IN  IF hits = {} THEN NoCpu
      ELSE CHOOSE c \in hits : \A d \in hits : c <= d

(* enter_cpu_off without the wait_for_poweron assignment *)
enter_cpu_off_park_only(rec) == [rec EXCEPT !.park = FALSE]

enter_cpu_off(rec) == [rec EXCEPT !.park = FALSE, !.wait_for_poweron = TRUE]

(* the guest register file after cpu_reset(): everything wiped, r1 carries  *)
(* the CPU_ON context                                                       *)
cpu_reset_regs(rec) == [ZeroRegs EXCEPT ![1] = rec.cpu_on_context]

(* ----------------------------- helpers --------------------------------- *)
Goto(c, label) == pc' = [pc EXCEPT ![c] = label]

ToGuest(c) ==
  /\ pc' = [pc EXCEPT ![c] = "guest"]
  /\ frame' = [frame EXCEPT ![c] = IdleFrame]

spin_lock(c, t) ==
  /\ control_lock[t] = NoCpu
  /\ control_lock' = [control_lock EXCEPT ![t] = c]

(* an unlock that leaves the lock with its holder *)
spin_unlock_held(c, t) == control_lock' = control_lock

spin_unlock(c, t) == control_lock' = [control_lock EXCEPT ![t] = NoCpu]

arm_cpu_kick(t) == sgi_event' = [sgi_event EXCEPT ![t] = TRUE]

(* every trap and every management call is counted against MaxCalls *)
CountCall ==
  /\ calls < MaxCalls
  /\ calls' = calls + 1

(* the CPU executes instructions of its cell (not the parking WFI loop) *)
RunsCellCode(c) == pc[c] = "guest" /\ vcpu_mm[c] = CELL_MM

(* the request as on_running records it *)
OnRunning(t, request) ==
  IF RunsCellCode(t) /\ ~per_cpu[t].suspend_cpu /\ ~per_cpu[t].cpu_suspended
  THEN request ELSE "none"

(* --------------------- IRQ exit: SGI_EVENT -> check_events -------------- *)
(* the pending SGI_EVENT is taken in guest mode; arch_handle_sgi calls      *)
(* check_events, which starts by taking the CPU's own lock                  *)
check_events_lock(c) ==
  /\ pc[c] = "guest"
  /\ sgi_event[c]
  /\ sgi_event' = [sgi_event EXCEPT ![c] = FALSE]
  /\ spin_lock(c, c)
  /\ Goto(c, "ce_top")
  /\ frame' = [frame EXCEPT ![c] = [IdleFrame EXCEPT !.exit = "irq"]]
  /\ UNCHANGED <<per_cpu, ELR_hyp, vcpu_mm, usr>>
  /\ UNCHANGED calls
  /\ hist' = [hist EXCEPT
                !.kick[c] = NoArgs,
                !.flush[c] = [@ EXCEPT
                   !.late = FALSE, !.done = 0,
                   !.flagged = per_cpu[c].flush_vcpu_caches]]

check_events_top(c) ==
  /\ pc[c] = "ce_top"
  /\ per_cpu' = IF per_cpu[c].suspend_cpu
                THEN [per_cpu EXCEPT ![c].cpu_suspended = TRUE]
                ELSE per_cpu
  /\ spin_unlock(c, c)
  /\ Goto(c, "ce_spin")
  /\ UNCHANGED <<sgi_event, ELR_hyp, vcpu_mm, usr, frame>>
  /\ UNCHANGED <<calls, hist>>

check_events_spin(c) ==
  /\ pc[c] = "ce_spin"
  /\ ~per_cpu[c].suspend_cpu
  /\ Goto(c, "ce_relock")
  /\ UNCHANGED <<per_cpu, control_lock, sgi_event, ELR_hyp, vcpu_mm, usr, frame>>
  /\ UNCHANGED <<calls, hist>>

check_events_relock(c) ==
  /\ pc[c] = "ce_relock"
  /\ spin_lock(c, c)
  /\ Goto(c, "ce_check")
  /\ UNCHANGED <<per_cpu, sgi_event, ELR_hyp, vcpu_mm, usr, frame>>
  /\ UNCHANGED <<calls, hist>>

(* check_events that leaves cpu_suspended as it is *)
check_events_check_keep(c) ==
  /\ pc[c] = "ce_check"
  /\ IF per_cpu[c].suspend_cpu
     THEN /\ Goto(c, "ce_top")
          /\ UNCHANGED per_cpu
     ELSE IF per_cpu[c].park
     THEN /\ per_cpu' = [per_cpu EXCEPT ![c] = enter_cpu_off(per_cpu[c])]
          /\ Goto(c, "ce_flush")
     ELSE /\ UNCHANGED per_cpu
          /\ Goto(c, "ce_reset")
  /\ UNCHANGED <<control_lock, sgi_event, ELR_hyp, vcpu_mm, usr, frame>>
  /\ UNCHANGED <<calls, hist>>

check_events_check(c) ==
  /\ pc[c] = "ce_check"
  /\ IF per_cpu[c].suspend_cpu
     THEN /\ Goto(c, "ce_top")
          /\ UNCHANGED per_cpu
     ELSE IF per_cpu[c].park
     THEN /\ per_cpu' = [per_cpu EXCEPT
                 ![c] = enter_cpu_off([per_cpu[c] EXCEPT !.cpu_suspended = FALSE])]
          /\ Goto(c, "ce_flush")
     ELSE /\ per_cpu' = [per_cpu EXCEPT ![c].cpu_suspended = FALSE]
          /\ Goto(c, "ce_reset")
  /\ UNCHANGED <<control_lock, sgi_event, ELR_hyp, vcpu_mm, usr, frame>>
  /\ UNCHANGED <<calls, hist>>

check_events_reset(c) ==
  /\ pc[c] = "ce_reset"
  /\ IF per_cpu[c].reset
     THEN /\ Goto(c, "ce_flush")
          /\ IF per_cpu[c].cpu_on_entry # PSCI_INVALID_ADDRESS
             THEN /\ per_cpu' = [per_cpu EXCEPT ![c].reset = FALSE,
                                                ![c].wait_for_poweron = FALSE]
                  /\ frame' = [frame EXCEPT ![c].reset = TRUE]
             ELSE /\ per_cpu' = [per_cpu EXCEPT
                         ![c] = enter_cpu_off([per_cpu[c] EXCEPT !.reset = FALSE])]
                  /\ UNCHANGED frame
     ELSE /\ Goto(c, IF per_cpu[c].suspend_cpu THEN "ce_top" ELSE "ce_flush")
          /\ UNCHANGED <<per_cpu, frame>>
  /\ UNCHANGED <<control_lock, sgi_event, ELR_hyp, vcpu_mm, usr>>
  /\ UNCHANGED calls
  /\ hist' = IF per_cpu[c].reset
                    THEN [hist EXCEPT !.req[c] = NoArgs]
                    ELSE hist

(* the unlock and the tail of check_events, which reads only state owned   *)
(* by this CPU                                                              *)
check_events_exit(c) ==
  /\ spin_unlock(c, c)
  /\ IF per_cpu[c].wait_for_poweron
     THEN /\ Goto(c, "park_lock")
          /\ UNCHANGED <<ELR_hyp, vcpu_mm, usr, frame>>
     ELSE IF frame[c].reset
     THEN /\ ELR_hyp' = [ELR_hyp EXCEPT ![c] = per_cpu[c].cpu_on_entry]
          /\ usr' = [usr EXCEPT ![c] = cpu_reset_regs(per_cpu[c])]
          /\ vcpu_mm' = [vcpu_mm EXCEPT ![c] = CELL_MM]
          /\ ToGuest(c)
     ELSE /\ ToGuest(c)
          /\ UNCHANGED <<ELR_hyp, vcpu_mm, usr>>

(* check_events that leaves without flushing when the CPU parks *)
check_events_flush_unless_parked(c) ==
  /\ pc[c] = "ce_flush"
  /\ IF per_cpu[c].flush_vcpu_caches /\ ~per_cpu[c].wait_for_poweron
     THEN /\ Goto(c, "ce_clear")
          /\ UNCHANGED <<control_lock, ELR_hyp, vcpu_mm, usr, frame>>
     ELSE check_events_exit(c)
  /\ UNCHANGED <<per_cpu, sgi_event, calls, hist>>

(* the test of flush_vcpu_caches under the lock; a clear flag leaves *)
check_events_flush(c) ==
  /\ pc[c] = "ce_flush"
  /\ IF per_cpu[c].flush_vcpu_caches
     THEN /\ Goto(c, "ce_clear")
          /\ UNCHANGED <<control_lock, ELR_hyp, vcpu_mm, usr, frame>>
     ELSE check_events_exit(c)
  /\ UNCHANGED <<per_cpu, sgi_event, calls, hist>>

check_events_clear(c) ==
  /\ pc[c] = "ce_clear"
  /\ per_cpu' = [per_cpu EXCEPT ![c].flush_vcpu_caches = FALSE]
  /\ Goto(c, "ce_tlbi")
  /\ UNCHANGED <<control_lock, sgi_event, ELR_hyp, vcpu_mm, usr, frame>>
  /\ UNCHANGED <<calls, hist>>

(* the TLB flush, still under the lock, and the rest of check_events *)
arm_paging_vcpu_flush_tlbs(c) ==
  /\ pc[c] = "ce_tlbi"
  /\ hist' = [hist EXCEPT !.flush[c] = [@ EXCEPT !.owed = FALSE,
                                                 !.done = @ + 1]]
  /\ check_events_exit(c)
  /\ UNCHANGED <<per_cpu, sgi_event, calls>>

(* ------------------------------ arm_cpu_park ---------------------------- *)
arm_cpu_park_lock(c) ==
  /\ pc[c] = "park_lock"
  /\ spin_lock(c, c)
  /\ Goto(c, "park_off")
  /\ UNCHANGED <<per_cpu, sgi_event, ELR_hyp, vcpu_mm, usr, frame>>
  /\ UNCHANGED <<calls, hist>>

arm_cpu_park_off(c) ==
  /\ pc[c] = "park_off"
  /\ per_cpu' = [per_cpu EXCEPT ![c] = enter_cpu_off(per_cpu[c])]
  /\ spin_unlock(c, c)
  /\ Goto(c, "park_reset")
  /\ UNCHANGED <<sgi_event, ELR_hyp, vcpu_mm, usr, frame>>
  /\ UNCHANGED <<calls, hist>>

(* arch_skip_instruction of an ARM (IL = 1) instruction *)
arch_skip_instruction(ctx_pc) == U32(ctx_pc + 4)

(* ctx.pc as arch_handle_trap holds it when it reaches restore_context:    *)
(* the SMC handler skips the instruction, the HVC handler and the panic     *)
(* path do not                                                              *)
trap_ctx_pc(c) ==
  IF frame[c].exit = "smc" THEN arch_skip_instruction(frame[c].ctx_pc)
  ELSE frame[c].ctx_pc

(* restore_context: of arch_handle_trap; an IRQ exit writes nothing back *)
restore_context(c, elr) ==
  IF frame[c].exit = "irq" THEN elr ELSE trap_ctx_pc(c)

(* regs[0] = psci_dispatch(ctx) in the HVC and SMC handlers *)
set_result(c, regs, result) ==
  IF frame[c].exit \in {"hvc", "smc"} THEN [regs EXCEPT ![0] = U32(result)]
  ELSE regs

arm_cpu_park_reset(c) ==
  /\ pc[c] = "park_reset"
  /\ usr' = [usr EXCEPT ![c] = set_result(c, cpu_reset_regs(per_cpu[c]), 0)]
  /\ vcpu_mm' = [vcpu_mm EXCEPT ![c] = PARKING_MM]
  /\ ELR_hyp' = [ELR_hyp EXCEPT ![c] = restore_context(c, 0)]
  /\ ToGuest(c)
  /\ UNCHANGED <<per_cpu, control_lock, sgi_event>>
  /\ UNCHANGED <<calls, hist>>

(* ------------------------- trap exits of the guest ---------------------- *)
(* return of a handled HVC/SMC trap that did not park the CPU *)
trap_return(c, exit, ctx_pc, regs, result) ==
  /\ usr' = [usr EXCEPT ![c] = [regs EXCEPT ![0] = U32(result)]]
  /\ ELR_hyp' = [ELR_hyp EXCEPT
       ![c] = IF exit = "smc" THEN arch_skip_instruction(ctx_pc) ELSE ctx_pc]
  /\ ToGuest(c)

psci_emulate_affinity_info(c, mpidr) ==
  LET cpu == arm_cpu_virt2phys(per_cpu[c].cell, mpidr)
  IN  IF cpu = NoCpu THEN PSCI_DENIED
      ELSE IF per_cpu[cpu].wait_for_poweron THEN PSCI_CPU_IS_OFF
      ELSE PSCI_CPU_IS_ON

(* the guest executes HVC or SMC with a PSCI function id in r0 *)
psci_dispatch(c, exit, fn, mpidr, entry, context, guest_pc) ==
  LET regs == [ZeroRegs EXCEPT ![0] = fn, ![1] = mpidr, ![2] = entry,
                               ![3] = context]
      cpu == arm_cpu_virt2phys(per_cpu[c].cell, mpidr)
  IN
  /\ RunsCellCode(c)
  /\ CountCall
  /\ CASE fn = PSCI_VERSION ->
            /\ trap_return(c, exit, guest_pc, regs, 2)
            /\ UNCHANGED <<per_cpu, control_lock, sgi_event, vcpu_mm>>
       [] fn = PSCI_CPU_OFF ->
            /\ Goto(c, "park_lock")
            /\ frame' = [frame EXCEPT
                 ![c] = [IdleFrame EXCEPT !.exit = exit, !.ctx_pc = guest_pc]]
            /\ usr' = [usr EXCEPT ![c] = regs]
            /\ UNCHANGED <<per_cpu, control_lock, sgi_event, vcpu_mm, ELR_hyp>>
       [] fn = PSCI_CPU_ON_32 ->
            IF cpu = NoCpu
            THEN /\ trap_return(c, exit, guest_pc, regs, PSCI_DENIED)
                 /\ UNCHANGED <<per_cpu, control_lock, sgi_event, vcpu_mm>>
            ELSE /\ spin_lock(c, cpu)
                 /\ Goto(c, "on_body")
                 /\ frame' = [frame EXCEPT
                      ![c] = [IdleFrame EXCEPT !.exit = exit, !.ctx_pc = guest_pc,
                                               !.target = cpu]]
                 /\ usr' = [usr EXCEPT ![c] = regs]
                 /\ UNCHANGED <<per_cpu, sgi_event, vcpu_mm, ELR_hyp>>
       [] fn = PSCI_AFFINITY_INFO_32 ->
            /\ trap_return(c, exit, guest_pc, regs,
                           psci_emulate_affinity_info(c, mpidr))
            /\ UNCHANGED <<per_cpu, control_lock, sgi_event, vcpu_mm>>
       [] OTHER ->
            /\ trap_return(c, exit, guest_pc, regs, PSCI_NOT_SUPPORTED)
            /\ UNCHANGED <<per_cpu, control_lock, sgi_event, vcpu_mm>>
  /\ UNCHANGED hist

(* CPU_ON without the wait_for_poweron test *)
psci_emulate_cpu_on_body_untested(c) ==
  LET t == frame[c].target IN
  /\ pc[c] = "on_body"
  /\ spin_unlock(c, t)
  /\ per_cpu' = [per_cpu EXCEPT ![t].cpu_on_entry = usr[c][2],
                                ![t].cpu_on_context = usr[c][3],
                                ![t].reset = TRUE]
  /\ Goto(c, "on_kick")
  /\ UNCHANGED <<usr, ELR_hyp, frame>>
  /\ UNCHANGED <<sgi_event, vcpu_mm>>
  /\ UNCHANGED calls
  /\ hist' = [hist EXCEPT !.req[t] = <<usr[c][2], usr[c][3]>>]

psci_emulate_cpu_on_body(c) ==
  LET t == frame[c].target IN
  /\ pc[c] = "on_body"
  /\ spin_unlock(c, t)
  /\ IF per_cpu[t].wait_for_poweron
     THEN /\ per_cpu' = [per_cpu EXCEPT ![t].cpu_on_entry = usr[c][2],
                                        ![t].cpu_on_context = usr[c][3],
                                        ![t].reset = TRUE]
          /\ Goto(c, "on_kick")
          /\ UNCHANGED <<usr, ELR_hyp, frame>>
     ELSE /\ trap_return(c, frame[c].exit, frame[c].ctx_pc, usr[c],
                         PSCI_ALREADY_ON)
          /\ UNCHANGED per_cpu
  /\ UNCHANGED <<sgi_event, vcpu_mm>>
  /\ UNCHANGED calls
  /\ hist' = IF per_cpu[frame[c].target].wait_for_poweron
                    THEN [hist EXCEPT
                           !.req[frame[c].target] = <<usr[c][2], usr[c][3]>>]
                    ELSE hist

(* CPU_ON that returns SUCCESS without sending SGI_EVENT *)
psci_emulate_cpu_on_kick_unsent(c) ==
  /\ pc[c] = "on_kick"
  /\ trap_return(c, frame[c].exit, frame[c].ctx_pc, usr[c], PSCI_SUCCESS)
  /\ UNCHANGED <<per_cpu, control_lock, vcpu_mm, sgi_event>>
  /\ UNCHANGED <<calls, hist>>

psci_emulate_cpu_on_kick(c) ==
  /\ pc[c] = "on_kick"
  /\ arm_cpu_kick(frame[c].target)
  /\ trap_return(c, frame[c].exit, frame[c].ctx_pc, usr[c], PSCI_SUCCESS)
  /\ UNCHANGED <<per_cpu, control_lock, vcpu_mm>>
  /\ UNCHANGED calls
  /\ hist' = [hist EXCEPT
                       !.kick[frame[c].target] = <<usr[c][2], usr[c][3]>>]

(* a trap whose handler returns TRAP_UNHANDLED: panic_park() *)
trap_unhandled(c, guest_pc) ==
  /\ pc[c] = "guest"
  /\ CountCall
  /\ \/ vcpu_mm[c] = CELL_MM /\ guest_pc \in GuestPCs
     \/ vcpu_mm[c] = PARKING_MM /\ ELR_hyp[c] # 0 /\ guest_pc = ELR_hyp[c]
  /\ Goto(c, "park_lock")
  /\ frame' = [frame EXCEPT
       ![c] = [IdleFrame EXCEPT !.exit = "panic", !.ctx_pc = guest_pc]]
  /\ UNCHANGED <<per_cpu, control_lock, sgi_event, ELR_hyp, vcpu_mm, usr>>
  /\ UNCHANGED hist

(* ---------------- management calls issued by a root-cell CPU ------------ *)
Manages(c, t) ==
  /\ pc[c] = "guest" /\ vcpu_mm[c] = CELL_MM
  /\ per_cpu[c].cell = ROOT_CELL /\ t # c
  /\ CountCall

arch_suspend_cpu(c, t) ==
  /\ Manages(c, t)
  /\ spin_lock(c, t)
  /\ Goto(c, "sus_body")
  /\ frame' = [frame EXCEPT ![c] = [IdleFrame EXCEPT !.target = t]]
  /\ UNCHANGED <<per_cpu, sgi_event, ELR_hyp, vcpu_mm, usr>>
  /\ UNCHANGED hist

(* arch_suspend_cpu that kicks and waits whatever cpu_suspended says *)
arch_suspend_cpu_body_rekick(c) ==
  LET t == frame[c].target IN
  /\ pc[c] = "sus_body"
  /\ per_cpu' = [per_cpu EXCEPT ![t].suspend_cpu = TRUE]
  /\ spin_unlock(c, t)
  /\ Goto(c, "sus_kick") /\ UNCHANGED frame
  /\ UNCHANGED <<sgi_event, ELR_hyp, vcpu_mm, usr>>
  /\ hist' = [hist EXCEPT !.suspends[t] = @ + 1]
  /\ UNCHANGED calls

arch_suspend_cpu_body(c) ==
  LET t == frame[c].target IN
  /\ pc[c] = "sus_body"
  /\ per_cpu' = [per_cpu EXCEPT ![t].suspend_cpu = TRUE]
  /\ spin_unlock(c, t)
  /\ IF per_cpu[t].cpu_suspended
     THEN ToGuest(c)
     ELSE Goto(c, "sus_kick") /\ UNCHANGED frame
  /\ UNCHANGED <<sgi_event, ELR_hyp, vcpu_mm, usr>>
  /\ hist' = [hist EXCEPT !.suspends[t] = @ + 1]
  /\ UNCHANGED calls

arch_suspend_cpu_kick(c) ==
  /\ pc[c] = "sus_kick"
  /\ arm_cpu_kick(frame[c].target)
  /\ Goto(c, "sus_wait")
  /\ UNCHANGED <<per_cpu, control_lock, ELR_hyp, vcpu_mm, usr, frame>>
  /\ UNCHANGED <<calls, hist>>

(* arch_suspend_cpu that returns without waiting for cpu_suspended *)
arch_suspend_cpu_wait_skipped(c) ==
  /\ pc[c] = "sus_wait"
  /\ ToGuest(c)
  /\ UNCHANGED <<per_cpu, control_lock, sgi_event, ELR_hyp, vcpu_mm, usr>>
  /\ UNCHANGED <<calls, hist>>

arch_suspend_cpu_wait(c) ==
  /\ pc[c] = "sus_wait"
  /\ per_cpu[frame[c].target].cpu_suspended
  /\ ToGuest(c)
  /\ UNCHANGED <<per_cpu, control_lock, sgi_event, ELR_hyp, vcpu_mm, usr>>
  /\ UNCHANGED <<calls, hist>>

arch_resume_cpu(c, t) ==
  /\ Manages(c, t)
  /\ spin_lock(c, t)
  /\ Goto(c, "res_body")
  /\ frame' = [frame EXCEPT ![c] = [IdleFrame EXCEPT !.target = t]]
  /\ UNCHANGED <<per_cpu, sgi_event, ELR_hyp, vcpu_mm, usr>>
  /\ UNCHANGED hist

arch_resume_cpu_lock(c) ==
  /\ pc[c] = "res_lock"
  /\ spin_lock(c, frame[c].target)
  /\ Goto(c, "res_body")
  /\ UNCHANGED <<per_cpu, sgi_event, ELR_hyp, vcpu_mm, usr, frame>>
  /\ UNCHANGED <<calls, hist>>

arch_resume_cpu_body(c) ==
  LET t == frame[c].target IN
  /\ pc[c] = "res_body"
  /\ per_cpu' = [per_cpu EXCEPT ![t].suspend_cpu = FALSE]
  /\ spin_unlock(c, t)
  /\ ToGuest(c)
  /\ UNCHANGED <<sgi_event, ELR_hyp, vcpu_mm, usr>>
  /\ hist' = [hist EXCEPT !.suspends[t] = 0]
  /\ UNCHANGED calls

arch_reset_cpu(c, t) ==
  /\ Manages(c, t)
  /\ per_cpu' = [per_cpu EXCEPT ![t].reset = TRUE]
  /\ Goto(c, "res_lock")
  /\ frame' = [frame EXCEPT ![c] = [IdleFrame EXCEPT
                   !.target = t, !.on_running = OnRunning(t, "reset")]]
  /\ UNCHANGED <<control_lock, sgi_event, ELR_hyp, vcpu_mm, usr>>
  /\ UNCHANGED hist

arch_park_cpu(c, t) ==
  /\ Manages(c, t)
  /\ per_cpu' = [per_cpu EXCEPT ![t].park = TRUE]
  /\ Goto(c, "res_lock")
  /\ frame' = [frame EXCEPT ![c] = [IdleFrame EXCEPT
                   !.target = t, !.on_running = OnRunning(t, "park")]]
  /\ UNCHANGED <<control_lock, sgi_event, ELR_hyp, vcpu_mm, usr>>
  /\ UNCHANGED hist

(* for_each_cpu: the CPU of the set that follows cpu, NoCpu at the end *)
next_cpu(set, cpu) ==
  LET rest == {x \in set : x > cpu}
  IN  IF rest = {} THEN NoCpu
      ELSE CHOOSE x \in rest : \A y \in rest : x <= y

arch_flush_cell_vcpu_caches(c, cell) ==
  /\ pc[c] = "guest" /\ vcpu_mm[c] = CELL_MM
  /\ per_cpu[c].cell = ROOT_CELL
  /\ cells[cell].exists
  /\ CountCall
  /\ IF next_cpu(cpu_set(cell), -1) = NoCpu
     THEN ToGuest(c)
     ELSE /\ Goto(c, "flush_cpu")
          /\ frame' = [frame EXCEPT ![c] = [IdleFrame EXCEPT
                          !.target = next_cpu(cpu_set(cell), -1),
                          !.cell = cell]]
  /\ hist' = [hist EXCEPT !.flush[c].inline = FALSE]
  /\ UNCHANGED <<per_cpu, control_lock, sgi_event, ELR_hyp, vcpu_mm, usr>>

(* one iteration of the loop over the cell's CPU set *)
arch_flush_cell_vcpu_caches_cpu(c) ==
  LET t == frame[c].target
      next == next_cpu(cpu_set(frame[c].cell), t) IN
  /\ pc[c] = "flush_cpu"
  /\ IF t = c
     THEN /\ hist' = [hist EXCEPT !.flush[c] = [@ EXCEPT !.owed = FALSE,
                                                        !.inline = TRUE]]
          /\ UNCHANGED per_cpu
     ELSE /\ per_cpu' = [per_cpu EXCEPT ![t].flush_vcpu_caches = TRUE]
          /\ hist' = [hist EXCEPT !.flush[t] = [@ EXCEPT !.owed = TRUE,
                                                        !.late = TRUE]]
  /\ IF next = NoCpu
     THEN ToGuest(c)
     ELSE /\ Goto(c, "flush_cpu")
          /\ frame' = [frame EXCEPT ![c].target = next]
  /\ UNCHANGED <<control_lock, sgi_event, ELR_hyp, vcpu_mm, usr, calls>>

(* ------------------- cell creation and destruction ---------------------- *)
(* ------------------------- GICv2 list registers ------------------------- *)
(* a list register: the virtual id, the state (invalid, pending or active),*)
(* the hardware bit and the physical id                                    *)
ZeroLr == [virt_id |-> 0, state |-> "invalid", hw |-> FALSE, phys_id |-> 0]

(* the list registers of one CPU after gic_clear_pending_irqs, the         *)
(* argument and the result of the last gic_inject_irq, the kind of the     *)
(* last step, the ids injected so far and whether the guest has completed  *)
(* an interrupt                                                            *)
GicWith(num_lr) ==
  [num_lr |-> num_lr, lr |-> [i \in 0 .. (num_lr - 1) |-> ZeroLr], ret |-> 0,
   last |-> "none", irq |-> 0, injected |-> {}, completed |-> FALSE]

InitGic == GicWith(1)

(* bit i of GICH_ELSR0/1: list register i holds no interrupt *)
test_bit_elsr(g, i) == g.lr[i].state = "invalid"

is_sgi(irq_id) == irq_id < 16

(* a scan that sees no overlap *)
gic_scan_lrs_unchecked(g, irq_id, i, first_free) ==
  LET free == {n \in i .. (g.num_lr - 1) : test_bit_elsr(g, n)} IN
  [exists |-> FALSE,
   first_free |-> IF first_free # -1 \/ free = {} THEN first_free
                  ELSE CHOOSE n \in free : \A m \in free : n <= m]

(* the loop of gic_inject_irq from list register i on: whether a           *)
(* non-empty register holds irq_id, and the first empty register           *)
RECURSIVE gic_scan_lrs(_, _, _, _)
gic_scan_lrs(g, irq_id, i, first_free) ==
  IF i >= g.num_lr
  THEN [exists |-> FALSE, first_free |-> first_free]
  ELSE IF test_bit_elsr(g, i)
  THEN gic_scan_lrs(g, irq_id, i + 1, IF first_free = -1 THEN i ELSE first_free)
  ELSE IF g.lr[i].virt_id = irq_id
  THEN [exists |-> TRUE, first_free |-> first_free]
  ELSE gic_scan_lrs(g, irq_id, i + 1, first_free)

(* the list register value gic_inject_irq composes *)
gic_new_lr(irq_id) ==
  [virt_id |-> irq_id % (GICH_LR_VIRT_ID_MASK + 1), state |-> "pending",
   hw |-> ~is_sgi(irq_id),
   phys_id |-> IF is_sgi(irq_id) THEN 0
               ELSE irq_id % (GICH_LR_VIRT_ID_MASK + 1)]

(* gic_inject_irq that takes the first list register when none is empty *)
gic_inject_irq_result_overwrite(g, irq_id) ==
  LET scan == gic_scan_lrs(g, irq_id, 0, -1) IN
  IF scan.exists THEN [lr |-> g.lr, ret |-> -EEXIST]
  ELSE IF scan.first_free = -1
  THEN [lr |-> [g.lr EXCEPT ![0] = gic_new_lr(irq_id)], ret |-> -EBUSY]
  ELSE [lr |-> [g.lr EXCEPT ![scan.first_free] = gic_new_lr(irq_id)],
        ret |-> 0]

(* gic_inject_irq: the list registers it leaves and what it returns *)
gic_inject_irq_result(g, irq_id) ==
  LET scan == gic_scan_lrs(g, irq_id, 0, -1) IN
  IF scan.exists THEN [lr |-> g.lr, ret |-> -EEXIST]
  ELSE IF scan.first_free = -1 THEN [lr |-> g.lr, ret |-> -EBUSY]
  ELSE [lr |-> [g.lr EXCEPT ![scan.first_free] = gic_new_lr(irq_id)],
        ret |-> 0]

control_vars == <<per_cpu, control_lock, sgi_event, ELR_hyp, vcpu_mm, usr, pc,
                  frame, calls, hist, cells, mgmt>>

gic_inject_irq(irq_id) ==
  /\ LET res == gic_inject_irq_result(gic, irq_id) IN
       gic' = [gic EXCEPT !.lr = res.lr, !.ret = res.ret, !.irq = irq_id,
                          !.last = "inject", !.injected = @ \cup {irq_id}]
  /\ UNCHANGED <<control_vars, trap>>

(* the guest acknowledges the interrupt of list register i *)
gic_guest_ack(i) ==
  /\ gic.lr[i].state = "pending"
  /\ gic' = [gic EXCEPT !.lr[i].state = "active", !.last = "ack"]
  /\ UNCHANGED <<control_vars, trap>>

(* the guest completes the interrupt of list register i: the register is   *)
(* empty again and keeps its other fields                                  *)
gic_guest_complete(i) ==
  /\ gic.lr[i].state = "active"
  /\ gic' = [gic EXCEPT !.lr[i].state = "invalid", !.last = "complete",
                         !.completed = TRUE]
  /\ UNCHANGED <<control_vars, trap>>

(* ----------------------------- trap dispatcher -------------------------- *)
(* The context of one trapped instruction.  The syndrome and the saved     *)
(* program status are records of the fields the code extracts from them:   *)
(*   hsr  - ec = HSR[31:26], il = HSR[25], cv = HSR[24], cond = HSR[23:20], *)
(*          and of a CP15 access op2 = HSR[19:17], op1 = HSR[16:14],        *)
(*          crn = HSR[13:10] (Rt2 of a 64-bit access), rt = HSR[8:5],       *)
(*          crm = HSR[4:1], read = HSR[0]                                   *)
(*   cpsr - nzcv = CPSR[31:28], it_lo = CPSR[26:25], it_hi = CPSR[15:10],   *)
(*          mode = CPSR[4:0]                                                *)
HSR_EC_CP15_32 == 3
HSR_EC_CP15_64 == 4
HSR_EC_HVC == 18
HSR_EC_SMC == 19
HSR_EC_DABT == 36

Bit(x, n) == (x \div (2 ^ n)) % 2

(* IT[7:0] -> CPSR[26:25],CPSR[15:10] *)
PSR_IT(cpsr) == cpsr.it_hi * 4 + cpsr.it_lo

PSR_IT_MASK(cpsr, it) == [cpsr EXCEPT !.it_lo = it % 4, !.it_hi = it \div 4]

(* bit n of entry cond is the verdict on condition cond under the flags n  *)
(* = NZCV; the sequence is indexed from 1                                   *)
cc_map ==
  << 61680, 3855, 52428, 13107, 65280, 255, 43690, 21845,
     3084, 62451, 43605, 21930, 2565, 62970, 65535, 0 >>

arch_failed_condition(t) ==
  LET class == t.hsr.ec
      flags == t.cpsr.nzcv
      it == PSR_IT(t.cpsr)
      cond == IF t.hsr.cv THEN t.hsr.cond ELSE it \div 16
  IN  IF (class \div 16) % 4 # 0 \/ class = 0 THEN FALSE
      ELSE IF ~t.hsr.cv /\ it = 0 THEN FALSE
      ELSE IF Bit(cc_map[cond + 1], flags) = 1 THEN FALSE
      ELSE TRUE

arch_advance_itstate_tail(cpsr) ==
  LET itbits == PSR_IT(cpsr)
      cond == itbits \div 32
      tail == (itbits * 2) % 32
      next == IF tail = 0 THEN 0 ELSE tail + cond * 32
  IN  IF itbits = 0 THEN cpsr ELSE PSR_IT_MASK(cpsr, next)

arch_advance_itstate(cpsr) ==
  LET itbits == PSR_IT(cpsr)
      cond == itbits \div 32
      next == IF itbits % 8 = 0 THEN 0
              ELSE ((itbits * 2) % 32) + cond * 32
  IN  IF itbits = 0 THEN cpsr ELSE PSR_IT_MASK(cpsr, next)

(* arch_skip_instruction of the trap context t *)
skip_instruction_arm(t) ==
  [t EXCEPT !.pc = U32(t.pc + 4),
            !.cpsr = arch_advance_itstate(t.cpsr)]

skip_instruction(t) ==
  [t EXCEPT !.pc = U32(t.pc + (IF t.hsr.il THEN 4 ELSE 2)),
            !.cpsr = arch_advance_itstate(t.cpsr)]

(* access_cell_reg: the context after the access and the value read *)
access_usr_reg(t, reg, val, is_read) ==
  IF is_read THEN [t |-> t, val |-> t.regs[reg]]
  ELSE [t |-> [t EXCEPT !.regs[reg] = val], val |-> val]

access_banked_reg(t, mode, reg, val, is_read) ==
  IF is_read THEN [t |-> t, val |-> t.banked[mode][reg]]
  ELSE [t |-> [t EXCEPT !.banked[mode][reg] = val], val |-> val]

access_fiq_reg(t, reg, val, is_read) ==
  IF is_read THEN [t |-> t, val |-> t.fiq[reg]]
  ELSE [t |-> [t EXCEPT !.fiq[reg] = val], val |-> val]

access_cell_reg_lr_bank(t, reg, val, is_read) ==
  LET mode == t.cpsr.mode IN
  IF reg \in 0 .. 12 THEN access_usr_reg(t, reg, val, is_read)
  ELSE IF reg \in 13 .. 14 THEN
    access_banked_reg(t, IF mode \in {"usr", "sys"} THEN "usr" ELSE mode,
                      reg, val, is_read)
  ELSE IF is_read THEN [t |-> t, val |-> t.pc]
  ELSE [t |-> [t EXCEPT !.pc = val], val |-> val]

access_cell_reg(t, reg, val, is_read) ==
  LET mode == t.cpsr.mode IN
  IF reg \in 0 .. 7 THEN access_usr_reg(t, reg, val, is_read)
  ELSE IF reg \in 8 .. 12 THEN
    IF mode = "fiq" THEN access_fiq_reg(t, reg, val, is_read)
    ELSE access_usr_reg(t, reg, val, is_read)
  ELSE IF reg \in 13 .. 14 THEN
    IF mode \in {"usr", "sys"} THEN
      IF reg = 13 THEN access_banked_reg(t, "usr", reg, val, is_read)
      ELSE access_usr_reg(t, 13, val, is_read)
    ELSE access_banked_reg(t, mode, reg, val, is_read)
  ELSE IF is_read THEN [t |-> t, val |-> t.pc]
  ELSE [t |-> [t EXCEPT !.pc = val], val |-> val]

(* regs[0] = psci_dispatch(ctx) or smc(...); the result is an input *)
arch_handle_smc(t, result) ==
  [skip_instruction([t EXCEPT !.regs[0] = U32(result)])
     EXCEPT !.ret = "TRAP_HANDLED"]

arch_handle_hvc(t, result) ==
  [t EXCEPT !.regs[0] = U32(result), !.ret = "TRAP_HANDLED"]

HSR_MATCH_MCR_MRC(hsr, crn, opc1, crm, opc2) ==
  hsr.crn = crn /\ hsr.op1 = opc1 /\ hsr.crm = crm /\ hsr.op2 = opc2

ACTLR == <<1, 0, 0, 1>>
SCTLR == <<1, 0, 0, 0>>

(* the registers of the CP15_32_PERFORM_WRITE chain, as                    *)
(* <<crn, opc1, crm, opc2>>: TTBR0, TTBR1, TTBCR, DACR, DFSR, IFSR, DFAR,   *)
(* IFAR, ADFSR, AIFSR, MAIR0, MAIR1, CONTEXTIDR                             *)
CP15_32_PERFORM_WRITE ==
  { <<2, 0, 0, 0>>, <<2, 0, 0, 1>>, <<2, 0, 0, 2>>, <<3, 0, 0, 0>>,
    <<5, 0, 0, 0>>, <<5, 0, 0, 1>>, <<6, 0, 0, 0>>, <<6, 0, 0, 2>>,
    <<5, 0, 1, 0>>, <<5, 0, 1, 1>>, <<10, 0, 2, 0>>, <<10, 0, 2, 1>>,
    <<13, 0, 0, 1>> }

(* arm_write_sysreg: the write of a real system register *)
arm_write_sysreg(t, reg, val) ==
  [t EXCEPT !.sysregs[reg] = val, !.wrote = @ \cup {reg}]

Matches(hsr, reg) == HSR_MATCH_MCR_MRC(hsr, reg[1], reg[2], reg[3], reg[4])

arch_handle_cp15_32_open(t) ==
  LET hsr == t.hsr
      val == access_cell_reg(t, hsr.rt, 0, TRUE).val
  IN  IF hsr.read THEN [t EXCEPT !.ret = "TRAP_UNHANDLED"]
      ELSE [skip_instruction(
              arm_write_sysreg(t, <<hsr.crn, hsr.op1, hsr.crm, hsr.op2>>,
                               val))
              EXCEPT !.ret = "TRAP_HANDLED"]

arch_handle_cp15_32_actlr(t) ==
  LET hsr == t.hsr
      val == access_cell_reg(t, hsr.rt, 0, TRUE).val
  IN  IF Matches(hsr, ACTLR)
        THEN [skip_instruction(IF hsr.read THEN t
                               ELSE [t EXCEPT !.actlr = val])
                EXCEPT !.ret = "TRAP_HANDLED"]
      ELSE [t EXCEPT !.ret = "TRAP_UNHANDLED"]

arch_handle_cp15_32(t) ==
  LET hsr == t.hsr
      rt == hsr.rt
      read == hsr.read
      val == IF read THEN t.actlr ELSE access_cell_reg(t, rt, 0, TRUE).val
      done(u) ==
        [skip_instruction(
           IF read THEN access_cell_reg(u, rt, val, FALSE).t ELSE u)
           EXCEPT !.ret = "TRAP_HANDLED"]
  IN  IF Matches(hsr, ACTLR) THEN done(t)
      ELSE IF read THEN [t EXCEPT !.ret = "TRAP_UNHANDLED"]
      ELSE IF Matches(hsr, SCTLR) THEN done(arm_write_sysreg(t, SCTLR, val))
      ELSE IF \E reg \in CP15_32_PERFORM_WRITE : Matches(hsr, reg)
        THEN done(arm_write_sysreg(
                    t, CHOOSE reg \in CP15_32_PERFORM_WRITE :
                         Matches(hsr, reg), val))
      ELSE [t EXCEPT !.ret = "TRAP_UNHANDLED"]

HSR_MATCH_MCRR_MRRC(hsr, opc1, crm) == hsr.op1 = opc1 /\ hsr.crm = crm

(* the 64-bit registers TTBR0 and TTBR1 as <<opc1, crm>> *)
CP15_64_PERFORM_WRITE == { <<0, 2>>, <<1, 2>> }

arch_handle_cp15_64(t) ==
  LET hsr == t.hsr
      lo == access_cell_reg(t, hsr.rt, 0, TRUE).val
      hi == access_cell_reg(t, hsr.crn, 0, TRUE).val
  IN  IF hsr.read THEN [t EXCEPT !.ret = "TRAP_UNHANDLED"]
      ELSE IF \E reg \in CP15_64_PERFORM_WRITE :
                HSR_MATCH_MCRR_MRRC(hsr, reg[1], reg[2])
        THEN [skip_instruction(
                arm_write_sysreg(t, <<hsr.op1, hsr.crm>>,
                                 hi * (2 ^ WORD_BITS) + lo))
                EXCEPT !.ret = "TRAP_HANDLED"]
      ELSE [t EXCEPT !.ret = "TRAP_UNHANDLED"]

(* the data abort handler emulates the access or refuses it; its verdict   *)
(* is an input, and an emulated access is skipped                           *)
arch_handle_dabt(t, verdict) ==
  IF verdict = "TRAP_HANDLED"
    THEN [skip_instruction(t) EXCEPT !.ret = "TRAP_HANDLED"]
  ELSE [t EXCEPT !.ret = verdict]

(* trap_handlers[exception_class], "none" for a null entry *)
trap_handlers(exception_class) ==
  IF exception_class = HSR_EC_CP15_32 THEN "arch_handle_cp15_32"
  ELSE IF exception_class = HSR_EC_CP15_64 THEN "arch_handle_cp15_64"
  ELSE IF exception_class = HSR_EC_HVC THEN "arch_handle_hvc"
  ELSE IF exception_class = HSR_EC_SMC THEN "arch_handle_smc"
  ELSE IF exception_class = HSR_EC_DABT THEN "arch_handle_dabt"
  ELSE "none"

(* the table has NUM_TRAP_HANDLERS slots and is indexed with the 6-bit     *)
(* class unchecked: a read past its end yields whatever word the image     *)
(* holds there, t.beyond, which is null, the address of a function or any  *)
(* other word ("wild")                                                     *)
NUM_TRAP_HANDLERS == 38

BeyondEntries == {"none", "arch_handle_hvc", "wild"}

read_trap_handlers(t, exception_class) ==
  IF exception_class < NUM_TRAP_HANDLERS THEN trap_handlers(exception_class)
  ELSE t.beyond

(* ret = trap_handlers[exception_class](&ctx); a call through a wild word  *)
(* is taken to return, with any verdict                                    *)
call_handler(t, handler, result, verdict) ==
  LET u == [t EXCEPT !.handler = handler] IN
  IF handler = "arch_handle_cp15_32" THEN arch_handle_cp15_32(u)
  ELSE IF handler = "arch_handle_cp15_64" THEN arch_handle_cp15_64(u)
  ELSE IF handler = "arch_handle_hvc" THEN arch_handle_hvc(u, result)
  ELSE IF handler = "arch_handle_smc" THEN arch_handle_smc(u, result)
  ELSE IF handler = "arch_handle_dabt" THEN arch_handle_dabt(u, verdict)
  ELSE IF handler = "wild" THEN [u EXCEPT !.ret = verdict]
  ELSE u

RESET_PSR == [nzcv |-> 0, it_lo |-> 0, it_hi |-> 0, mode |-> "svc"]

(* panic_park() = arm_cpu_park() on the trapping CPU: cpu_reset wipes the  *)
(* guest registers and system registers and loads the reset status, then   *)
(* ELR_hyp = 0 and the parking stage-2 map is installed                     *)
panic_park(t) ==
  [t EXCEPT !.regs = [r \in DOMAIN t.regs |-> 0],
            !.banked = [m \in DOMAIN t.banked |-> [r \in 13 .. 14 |-> 0]],
            !.fiq = [r \in DOMAIN t.fiq |-> 0],
            !.sysregs = [r \in DOMAIN t.sysregs |-> 0],
            !.SPSR_hyp = RESET_PSR,
            !.ELR_hyp = 0,
            !.mm = PARKING_MM,
            !.parked = TRUE]

(* restore_context: *)
trap_restore_context(t) ==
  [t EXCEPT !.SPSR_hyp = t.cpsr, !.ELR_hyp = t.pc, !.phase = "returned"]

(* arch_handle_trap as a function of the context at entry; ret starts as   *)
(* TRAP_UNHANDLED                                                           *)
handle_trap_no_goto(t, result, verdict) ==
  LET exception_class == t.hsr.ec
      u == call_handler(
             IF arch_failed_condition(t)
               THEN [skip_instruction(t) EXCEPT !.skipped = TRUE] ELSE t,
             read_trap_handlers(t, exception_class), result, verdict)
  IN  IF u.ret \in {"TRAP_UNHANDLED", "TRAP_FORBIDDEN"}
        THEN trap_restore_context(panic_park(u))
      ELSE trap_restore_context(u)

handle_trap(t, result, verdict) ==
  LET exception_class == t.hsr.ec IN
  IF arch_failed_condition(t)
    THEN trap_restore_context([skip_instruction(t) EXCEPT !.skipped = TRUE])
  ELSE LET u == call_handler([t EXCEPT !.indexed = exception_class],
                             read_trap_handlers(t, exception_class), result,
                             verdict)
       IN  IF u.ret \in {"TRAP_UNHANDLED", "TRAP_FORBIDDEN"}
             THEN trap_restore_context(panic_park(u))
           ELSE trap_restore_context(u)

BankedModes == {"usr", "svc", "und", "abt", "irq", "fiq"}
Cp15Regs == {SCTLR} \cup CP15_32_PERFORM_WRITE \cup CP15_64_PERFORM_WRITE

(* the banks in the order of the switch of access_cell_reg *)
BankIndex ==
  [usr |-> 0, svc |-> 1, und |-> 2, abt |-> 3, irq |-> 4, fiq |-> 5]

(* the context arch_handle_trap reads at entry: pc and cpsr come from      *)
(* ELR_hyp and SPSR_hyp, the registers hold distinct non-zero values;      *)
(* entry keeps the pc and cpsr of the trapped instruction and indexed the  *)
(* index trap_handlers was read at (history)                               *)
TrapOf(hsr, cpsr, guest_pc) ==
  [phase |-> "trapped", pc |-> guest_pc, cpsr |-> cpsr, hsr |-> hsr,
   regs |-> [r \in 0 .. 13 |-> 32 + r],
   banked |-> [m \in BankedModes |->
                [r \in 13 .. 14 |-> 64 + 16 * BankIndex[m] + r]],
   fiq |-> [r \in 8 .. 12 |-> 96 + r],
   sysregs |-> [r \in Cp15Regs |-> 1], actlr |-> 7,
   ELR_hyp |-> guest_pc, SPSR_hyp |-> cpsr, mm |-> CELL_MM,
   ret |-> "TRAP_UNHANDLED", handler |-> "none", wrote |-> {},
   skipped |-> FALSE, parked |-> FALSE,
   entry |-> [pc |-> guest_pc, cpsr |-> cpsr],
   beyond |-> "none", indexed |-> -1]

(* a write of SCTLR from r0, always executed, in an ARM instruction; the  *)
(* conditional traps below use it and the read of ACTLR into r0           *)
DefaultHsr ==
  [ec |-> HSR_EC_CP15_32, il |-> TRUE, cv |-> TRUE, cond |-> 14,
   op2 |-> 0, op1 |-> 0, crn |-> 1, rt |-> 0, crm |-> 0, read |-> FALSE]

DefaultPsr == [nzcv |-> 0, it_lo |-> 0, it_hi |-> 0, mode |-> "svc"]

InitTrap == TrapOf(DefaultHsr, DefaultPsr, 8)

(* the trapped instructions the dispatcher is run on: every condition     *)
(* under every flag nibble in and outside IT blocks, and every CP15        *)
(* register of a small coordinate range in both directions                 *)
TrapClasses ==
  {0, 1, HSR_EC_CP15_32, HSR_EC_CP15_64, HSR_EC_HVC, HSR_EC_SMC,
   HSR_EC_DABT}
ItStates == {0, 8, 28, 228}
TrapPCs == {8, 65534}
HandlerResults == {0, 65535}
DabtVerdicts == {"TRAP_HANDLED", "TRAP_UNHANDLED", "TRAP_FORBIDDEN"}

CondTraps ==
  { TrapOf([DefaultHsr EXCEPT !.ec = ec, !.il = il, !.cv = cv,
                              !.cond = cond, !.read = rd,
                              !.op2 = IF rd THEN 1 ELSE 0],
           [DefaultPsr EXCEPT !.nzcv = flags, !.it_lo = it % 4,
                              !.it_hi = it \div 4],
           8) :
      ec \in TrapClasses, il \in BOOLEAN, cv \in BOOLEAN, cond \in 0 .. 15,
      flags \in 0 .. 15, it \in ItStates,
      rd \in BOOLEAN }

Cp15Traps ==
  { TrapOf([DefaultHsr EXCEPT !.ec = ec, !.crn = crn, !.op1 = op1,
                              !.crm = crm, !.op2 = op2, !.rt = rt,
                              !.read = rd],
           [DefaultPsr EXCEPT !.mode = mode], guest_pc) :
      ec \in {HSR_EC_CP15_32, HSR_EC_CP15_64},
      crn \in {0, 1, 2, 3, 5, 6, 10, 13}, op1 \in 0 .. 1, crm \in 0 .. 2,
      op2 \in 0 .. 2, rt \in {0, 14, 15}, rd \in BOOLEAN,
      mode \in {"usr", "svc"}, guest_pc \in TrapPCs }

(* the read of ACTLR into, and the write of SCTLR from, each register in *)
(* each guest mode                                                        *)
GuestModes == {"usr", "sys", "svc", "und", "abt", "irq", "fiq"}

RegTraps ==
  { TrapOf([DefaultHsr EXCEPT !.rt = rt, !.read = rd,
                              !.op2 = IF rd THEN 1 ELSE 0],
           [DefaultPsr EXCEPT !.mode = mode], 8) :
      rt \in 0 .. 15, rd \in BOOLEAN, mode \in GuestModes }

(* the last class of the table and classes past its end *)
OobTraps ==
  { [TrapOf([DefaultHsr EXCEPT !.ec = ec], DefaultPsr, 8)
       EXCEPT !.beyond = b] :
      ec \in {NUM_TRAP_HANDLERS - 1, NUM_TRAP_HANDLERS, 63},
      b \in BeyondEntries }

(* an SMC, which its handler skips, under every IT state *)
ItTraps ==
  { TrapOf([DefaultHsr EXCEPT !.ec = HSR_EC_SMC, !.il = il],
           [DefaultPsr EXCEPT !.nzcv = flags, !.it_lo = it % 4,
                              !.it_hi = it \div 4, !.mode = mode],
           guest_pc) :
      il \in BOOLEAN, flags \in {0, 10}, it \in 0 .. 255,
      mode \in {"usr", "svc"}, guest_pc \in TrapPCs }

arch_handle_trap(result, verdict) ==
  /\ trap.phase = "trapped"
  /\ trap' = handle_trap(trap, result, verdict)
  /\ UNCHANGED <<control_vars, gic>>

(* a cell as the architecture code sees it: its CPU set, the state of its   *)
(* stage-2 paging, interrupt controller and signaling tables, and the       *)
(* highest virtual CPU id arch_cell_create gave out                         *)
NoCell == [exists |-> FALSE, cpu_set |-> {}, last_virt_id |-> 0,
           mm |-> "none", irqchip |-> FALSE, smp |-> FALSE]

InitCell(k) ==
  IF k = ROOT_CELL
  THEN [exists |-> TRUE, cpu_set |-> {2}, last_virt_id |-> 2,
        mm |-> "built", irqchip |-> TRUE, smp |-> TRUE]
  ELSE IF k = GUEST_CELL
  THEN [exists |-> TRUE, cpu_set |-> {0, 1}, last_virt_id |-> 1,
        mm |-> "built", irqchip |-> TRUE, smp |-> TRUE]
  ELSE NoCell

(* no cell management operation in progress; once one has returned, phase  *)
(* tells which, cell and set what it worked on and ret what it returned    *)
IdleMgmt == [op |-> "none", phase |-> "none", cpu |-> NoCpu,
             cell |-> ROOT_CELL, set |-> {}, todo |-> {}, err |-> 0, ret |-> 0]

Min(S) == CHOOSE x \in S : \A y \in S : x <= y

(* what arm_paging_cell_init and irqchip_cell_init may return *)
PagingResults == {0, -12}
IrqchipResults == {0, -22}

(* every CPU of the cell gets the entry address 0 *)
first_cpu_on_entry_all(virt_id) == 0

(* the entry address arch_cell_create gives the CPU with virtual id virt_id *)
first_cpu_on_entry(virt_id) == IF virt_id = 0 THEN 0 ELSE PSCI_INVALID_ADDRESS

(* a numbering that hands out the physical CPU ids *)
assign_virt_ids_physical(pcpu, todo, virt_id) ==
  [per_cpu |-> [c \in CPUs |->
                  IF c \in todo
                  THEN [pcpu[c] EXCEPT !.cpu_on_entry = first_cpu_on_entry(c),
                                       !.virt_id = c]
                  ELSE pcpu[c]],
   virt_id |-> virt_id + Cardinality(todo)]

(* the loop of arch_cell_create over the cell's CPU set, lowest CPU first *)
RECURSIVE assign_virt_ids(_, _, _)
assign_virt_ids(pcpu, todo, virt_id) ==
  IF todo = {}
  THEN [per_cpu |-> pcpu, virt_id |-> virt_id]
  ELSE LET cpu == Min(todo) IN
       assign_virt_ids(
         [pcpu EXCEPT ![cpu].cpu_on_entry = first_cpu_on_entry(virt_id),
                      ![cpu].virt_id = virt_id],
         todo \ {cpu}, virt_id + 1)

(* arch_cell_create that returns the interrupt controller's error and      *)
(* leaves the stage-2 paging in place                                      *)
arch_cell_create_no_unwind(pcpu, cell, paging_err, irqchip_err) ==
  IF paging_err # 0
  THEN [per_cpu |-> pcpu, cell |-> cell, err |-> paging_err]
  ELSE LET loop == assign_virt_ids(pcpu, cell.cpu_set, 0)
           numbered == [cell EXCEPT !.mm = "built",
                                    !.last_virt_id = U32(loop.virt_id - 1)]
       IN  IF irqchip_err # 0
           THEN [per_cpu |-> loop.per_cpu, cell |-> numbered,
                 err |-> irqchip_err]
           ELSE [per_cpu |-> loop.per_cpu,
                 cell |-> [numbered EXCEPT !.irqchip = TRUE, !.smp = TRUE],
                 err |-> 0]

(* arch_cell_create: the per-CPU records and the cell it leaves, and what   *)
(* it returns, given the results of the paging and interrupt controller     *)
(* initialisation                                                           *)
arch_cell_create(pcpu, cell, paging_err, irqchip_err) ==
  IF paging_err # 0
  THEN [per_cpu |-> pcpu, cell |-> cell, err |-> paging_err]
  ELSE LET loop == assign_virt_ids(pcpu, cell.cpu_set, 0)
           numbered == [cell EXCEPT !.mm = "built",
                                    !.last_virt_id = U32(loop.virt_id - 1)]
       IN  IF irqchip_err # 0
           THEN [per_cpu |-> loop.per_cpu,
                 cell |-> [numbered EXCEPT !.mm = "destroyed"],
                 err |-> irqchip_err]
           ELSE [per_cpu |-> loop.per_cpu,
                 cell |-> [numbered EXCEPT !.irqchip = TRUE, !.smp = TRUE],
                 err |-> 0]

(* a root-cell CPU that runs its cell's code may start a cell management    *)
(* operation while no other one is in progress; the other CPUs of the root  *)
(* cell are held outside the hypervisor until the operation returns         *)
Coordinates(r) ==
  /\ mgmt.op = "none"
  /\ pc[r] = "guest" /\ vcpu_mm[r] = CELL_MM
  /\ per_cpu[r].cell = ROOT_CELL
  /\ \A c \in cells[ROOT_CELL].cpu_set \ {r} : pc[c] = "guest"
  /\ CountCall

(* the coordinating CPU is between two calls of the operation's phase *)
InPhase(r, phase) ==
  /\ mgmt.op # "none" /\ mgmt.cpu = r /\ mgmt.phase = phase
  /\ pc[r] = "guest"

StartMgmt(r, op, k, S) ==
  mgmt' = [op |-> op, phase |-> "suspend", cpu |-> r, cell |-> k, set |-> S,
           todo |-> S, err |-> 0, ret |-> mgmt.ret]

(* cell creation: the new cell takes the CPUs S from the root cell; they    *)
(* are suspended first                                                      *)
cell_create(r, k, S) ==
  /\ Coordinates(r)
  /\ k # ROOT_CELL /\ ~cells[k].exists
  /\ S # {} /\ S \subseteq (cells[ROOT_CELL].cpu_set \ {r})
  /\ cells' = [cells EXCEPT ![k] = [NoCell EXCEPT !.exists = TRUE,
                                                  !.cpu_set = S]]
  /\ StartMgmt(r, "create", k, S)
  /\ UNCHANGED <<per_cpu, control_lock, sgi_event, ELR_hyp, vcpu_mm, usr, pc,
                 frame, hist, gic, trap>>

(* cell destruction: the cell's CPUs are suspended first *)
cell_destroy(r, k) ==
  /\ Coordinates(r)
  /\ k # ROOT_CELL /\ cells[k].exists
  /\ StartMgmt(r, "destroy", k, cells[k].cpu_set)
  /\ UNCHANGED <<per_cpu, control_lock, sgi_event, ELR_hyp, vcpu_mm, usr, pc,
                 frame, hist, cells, gic, trap>>

(* the operation suspends the next CPU: arch_suspend_cpu takes its lock *)
cell_suspend_cpu(r) ==
  /\ InPhase(r, "suspend") /\ mgmt.todo # {}
  /\ LET t == Min(mgmt.todo) IN
     /\ spin_lock(r, t)
     /\ Goto(r, "sus_body")
     /\ frame' = [frame EXCEPT ![r] = [IdleFrame EXCEPT !.target = t]]
     /\ mgmt' = [mgmt EXCEPT !.todo = @ \ {t}]
  /\ UNCHANGED <<per_cpu, sgi_event, ELR_hyp, vcpu_mm, usr, calls, hist,
                 cells, gic, trap>>

(* all CPUs are suspended: the creation calls arch_cell_create and goes on  *)
(* to park the CPUs, or to resume them when it failed                       *)
cell_create_arch(r) ==
  /\ InPhase(r, "suspend") /\ mgmt.todo = {} /\ mgmt.op = "create"
  /\ \E paging_err \in PagingResults, irqchip_err \in IrqchipResults :
       LET res == arch_cell_create(per_cpu, cells[mgmt.cell],
                                   paging_err, irqchip_err) IN
       /\ per_cpu' = res.per_cpu
       /\ cells' = [cells EXCEPT ![mgmt.cell] = res.cell]
       /\ mgmt' = [mgmt EXCEPT !.phase = IF res.err = 0 THEN "park"
                                         ELSE "resume",
                               !.todo = mgmt.set, !.err = res.err]
  /\ UNCHANGED <<control_lock, sgi_event, ELR_hyp, vcpu_mm, usr, pc, frame,
                 calls, hist, gic, trap>>

(* all CPUs are suspended: the destruction goes on to park them *)
cell_destroy_park(r) ==
  /\ InPhase(r, "suspend") /\ mgmt.todo = {} /\ mgmt.op = "destroy"
  /\ mgmt' = [mgmt EXCEPT !.phase = "park", !.todo = mgmt.set]
  /\ UNCHANGED <<per_cpu, control_lock, sgi_event, ELR_hyp, vcpu_mm, usr, pc,
                 frame, calls, hist, cells, gic, trap>>

(* cell start: the cell's CPUs are suspended first *)
cell_start(r, k) ==
  /\ Coordinates(r)
  /\ k # ROOT_CELL /\ cells[k].exists
  /\ StartMgmt(r, "start", k, cells[k].cpu_set)
  /\ UNCHANGED <<per_cpu, control_lock, sgi_event, ELR_hyp, vcpu_mm, usr, pc,
                 frame, hist, cells, gic, trap>>

(* all CPUs are suspended: arch_cell_reset invalidates the data caches,    *)
(* which changes none of the per-CPU fields, and the start goes on to      *)
(* reset the CPUs                                                           *)
cell_start_reset(r) ==
  /\ InPhase(r, "suspend") /\ mgmt.todo = {} /\ mgmt.op = "start"
  /\ mgmt' = [mgmt EXCEPT !.phase = "reset", !.todo = mgmt.set]
  /\ UNCHANGED <<per_cpu, control_lock, sgi_event, ELR_hyp, vcpu_mm, usr, pc,
                 frame, calls, hist, cells, gic, trap>>

(* the start resets the next CPU with arch_reset_cpu *)
cell_reset_cpu(r) ==
  /\ InPhase(r, "reset") /\ mgmt.todo # {}
  /\ LET t == Min(mgmt.todo) IN
     /\ per_cpu' = [per_cpu EXCEPT ![t].reset = TRUE]
     /\ Goto(r, "res_lock")
     /\ frame' = [frame EXCEPT ![r] = [IdleFrame EXCEPT !.target = t]]
     /\ mgmt' = [mgmt EXCEPT !.todo = @ \ {t}]
  /\ UNCHANGED <<control_lock, sgi_event, ELR_hyp, vcpu_mm, usr, calls, hist,
                 cells, gic, trap>>

cell_start_return(r) ==
  /\ InPhase(r, "reset") /\ mgmt.todo = {}
  /\ mgmt' = [IdleMgmt EXCEPT !.phase = "started", !.cell = mgmt.cell,
                              !.set = mgmt.set, !.ret = 0]
  /\ UNCHANGED <<per_cpu, control_lock, sgi_event, ELR_hyp, vcpu_mm, usr, pc,
                 frame, calls, hist, cells, gic, trap>>

(* the owner of a CPU the operation parks: the new cell, or the root cell   *)
(* that takes the CPUs of a destroyed cell back                             *)
NewOwner == IF mgmt.op = "create" THEN mgmt.cell ELSE ROOT_CELL

(* the operation parks the next CPU with arch_park_cpu and hands it to its  *)
(* new owner                                                                *)
cell_park_cpu(r) ==
  /\ InPhase(r, "park") /\ mgmt.todo # {}
  /\ LET t == Min(mgmt.todo) IN
     /\ per_cpu' = [per_cpu EXCEPT ![t].park = TRUE, ![t].cell = NewOwner]
     /\ cells' = [cells EXCEPT
                    ![ROOT_CELL].cpu_set = IF mgmt.op = "create"
                                           THEN @ \ {t} ELSE @ \cup {t}]
     /\ Goto(r, "res_lock")
     /\ frame' = [frame EXCEPT ![r] = [IdleFrame EXCEPT !.target = t]]
     /\ mgmt' = [mgmt EXCEPT !.todo = @ \ {t}]
  /\ UNCHANGED <<control_lock, sgi_event, ELR_hyp, vcpu_mm, usr, calls, hist,
                 gic, trap>>

(* a failed creation resumes the next CPU with arch_resume_cpu *)
cell_resume_cpu(r) ==
  /\ InPhase(r, "resume") /\ mgmt.todo # {}
  /\ LET t == Min(mgmt.todo) IN
     /\ spin_lock(r, t)
     /\ Goto(r, "res_body")
     /\ frame' = [frame EXCEPT ![r] = [IdleFrame EXCEPT !.target = t]]
     /\ mgmt' = [mgmt EXCEPT !.todo = @ \ {t}]
  /\ UNCHANGED <<per_cpu, sgi_event, ELR_hyp, vcpu_mm, usr, calls, hist,
                 cells, gic, trap>>

(* the loop of arch_cell_destroy, one CPU of the cell at a time *)
arch_cell_destroy_cpu(percpu) ==
  [percpu EXCEPT !.virt_id = percpu.cpu_id,
                 !.cpu_on_entry = PSCI_INVALID_ADDRESS]

(* all CPUs are parked: the destruction calls arch_cell_destroy *)
cell_destroy_arch(r) ==
  /\ InPhase(r, "park") /\ mgmt.todo = {} /\ mgmt.op = "destroy"
  /\ mgmt' = [mgmt EXCEPT !.phase = "arch", !.todo = mgmt.set]
  /\ UNCHANGED <<per_cpu, control_lock, sgi_event, ELR_hyp, vcpu_mm, usr, pc,
                 frame, calls, hist, cells, gic, trap>>

arch_cell_destroy_loop(r) ==
  /\ InPhase(r, "arch") /\ mgmt.todo # {}
  /\ LET cpu == Min(mgmt.todo) IN
     /\ per_cpu' = [per_cpu EXCEPT ![cpu] = arch_cell_destroy_cpu(@)]
     /\ mgmt' = [mgmt EXCEPT !.todo = @ \ {cpu}]
  /\ UNCHANGED <<control_lock, sgi_event, ELR_hyp, vcpu_mm, usr, pc, frame,
                 calls, hist, cells, gic, trap>>

(* arch_cell_destroy ends with smp_cell_exit, irqchip_cell_exit and        *)
(* arm_paging_cell_destroy; the cell is gone                               *)
arch_cell_destroy_exit(r) ==
  /\ InPhase(r, "arch") /\ mgmt.todo = {}
  /\ cells' = [cells EXCEPT ![mgmt.cell] = NoCell]
  /\ mgmt' = [IdleMgmt EXCEPT !.phase = "destroyed", !.cell = mgmt.cell,
                              !.set = mgmt.set, !.ret = 0]
  /\ UNCHANGED <<per_cpu, control_lock, sgi_event, ELR_hyp, vcpu_mm, usr, pc,
                 frame, calls, hist, gic, trap>>

(* the creation returns: 0 with the cell in place, or the error of          *)
(* arch_cell_create with the cell given up                                  *)
cell_create_return(r) ==
  /\ \/ InPhase(r, "park") /\ mgmt.op = "create"
     \/ InPhase(r, "resume")
  /\ mgmt.todo = {}
  /\ cells' = IF mgmt.err = 0 THEN cells
              ELSE [cells EXCEPT ![mgmt.cell] = NoCell]
  /\ mgmt' = [IdleMgmt EXCEPT !.phase = IF mgmt.err = 0 THEN "created"
                                         ELSE "failed",
                              !.cell = mgmt.cell, !.set = mgmt.set,
                              !.err = mgmt.err, !.ret = mgmt.err]
  /\ UNCHANGED <<per_cpu, control_lock, sgi_event, ELR_hyp, vcpu_mm, usr, pc,
                 frame, calls, hist, gic, trap>>

(* ------------------------------ specification --------------------------- *)
(* CPU 2 forms the root cell (virt_id = cpu_id) and runs its guest.  CPUs 0  *)
(* and 1 form a non-root cell that has been created (arch_cell_create) and  *)
(* started: CPU 0 was reset to entry 0 and runs the guest, CPU 1 had no     *)
(* entry address and waits in the parking page for a CPU_ON.                *)
InitPerCpu(c) ==
  [cpu_id |-> c,
   cell |-> IF c = 2 THEN ROOT_CELL ELSE GUEST_CELL,
   virt_id |-> c,
   cpu_on_entry |-> IF c = 0 THEN 0 ELSE PSCI_INVALID_ADDRESS,
   cpu_on_context |-> 0,
   park |-> FALSE, reset |-> FALSE, suspend_cpu |-> FALSE,
   cpu_suspended |-> FALSE, flush_vcpu_caches |-> FALSE,
   wait_for_poweron |-> (c = 1)]

InitControl ==
  /\ cells = [k \in CellIds |-> InitCell(k)]
  /\ mgmt = IdleMgmt
  /\ per_cpu = [c \in CPUs |-> InitPerCpu(c)]
  /\ control_lock = [c \in CPUs |-> NoCpu]
  /\ sgi_event = [c \in CPUs |-> FALSE]
  /\ ELR_hyp = [c \in CPUs |-> 0]
  /\ vcpu_mm = [c \in CPUs |-> IF c = 1 THEN PARKING_MM ELSE CELL_MM]
  /\ usr = [c \in CPUs |-> ZeroRegs]
  /\ pc = [c \in CPUs |-> "guest"]
  /\ frame = [c \in CPUs |-> IdleFrame]
  /\ calls = 0
  /\ hist = [req |-> [c \in CPUs |-> NoArgs],
             kick |-> [c \in CPUs |-> NoArgs],
             suspends |-> [c \in CPUs |-> 0],
             flush |-> [c \in CPUs |-> NoFlush]]

Init ==
  /\ InitControl
  /\ gic = InitGic
  /\ trap = InitTrap

(* steps of check_events and arm_cpu_park, run by the CPU itself *)
EventStep(c) ==
  \/ check_events_lock(c)
  \/ check_events_top(c)
  \/ check_events_spin(c)
  \/ check_events_relock(c)
  \/ check_events_check(c)
  \/ check_events_reset(c)
  \/ check_events_flush(c)
  \/ arm_cpu_park_lock(c)
  \/ arm_cpu_park_off(c)
  \/ arm_cpu_park_reset(c)

(* traps taken from the guest, and the rest of the PSCI CPU_ON emulation *)
PsciCall(c) ==
  \E exit \in {"hvc", "smc"}, fn \in PsciFunctions, mpidr \in CPUs,
     a \in CpuOnArgs, p \in GuestPCs :
     psci_dispatch(c, exit, fn,
                   IF fn \in {PSCI_CPU_ON_32, PSCI_AFFINITY_INFO_32} THEN mpidr ELSE 0,
                   IF fn = PSCI_CPU_ON_32 THEN a[1] ELSE 0,
                   IF fn = PSCI_CPU_ON_32 THEN a[2] ELSE 0, p)

PsciStep(c) ==
  \/ psci_emulate_cpu_on_body(c)
  \/ psci_emulate_cpu_on_kick(c)

PanicTrap(c) == \E p \in GuestPCs \cup {ELR_hyp[c]} : trap_unhandled(c, p)

(* management calls of the root cell and their steps *)
MgmtCall(c) ==
  \E t \in CPUs :
     \/ arch_suspend_cpu(c, t)
     \/ arch_resume_cpu(c, t)
     \/ arch_reset_cpu(c, t)
     \/ arch_park_cpu(c, t)

MgmtStep(c) ==
  \/ arch_suspend_cpu_body(c)
  \/ arch_suspend_cpu_kick(c)
  \/ arch_suspend_cpu_wait(c)
  \/ arch_resume_cpu_lock(c)
  \/ arch_resume_cpu_body(c)

Next ==
  \E c \in CPUs :
     \/ EventStep(c) /\ UNCHANGED other_vars
     \/ PsciCall(c) /\ UNCHANGED other_vars
     \/ PsciStep(c) /\ UNCHANGED other_vars
     \/ PanicTrap(c) /\ UNCHANGED other_vars
     \/ MgmtCall(c) /\ UNCHANGED other_vars
     \/ MgmtStep(c) /\ UNCHANGED other_vars

Spec == Init /\ [][Next]_vars

(* the cells' PSCI power calls, no management call of the root cell; every  *)
(* CPU keeps executing the hypervisor code it has entered and takes a       *)
(* pending SGI_EVENT                                                        *)
(* the PSCI power calls a guest issues *)
PowerCall(c) ==
  \E exit \in {"hvc", "smc"},
     fn \in {PSCI_CPU_OFF, PSCI_CPU_ON_32, PSCI_AFFINITY_INFO_32},
     mpidr \in CPUs, a \in CpuOnArgs, p \in GuestPCs :
     psci_dispatch(c, exit, fn,
                   IF fn \in {PSCI_CPU_ON_32, PSCI_AFFINITY_INFO_32} THEN mpidr ELSE 0,
                   IF fn = PSCI_CPU_ON_32 THEN a[1] ELSE 0,
                   IF fn = PSCI_CPU_ON_32 THEN a[2] ELSE 0, p)

PsciNext ==
  \E c \in CPUs :
     \/ EventStep(c) /\ UNCHANGED other_vars
     \/ PowerCall(c) /\ UNCHANGED other_vars
     \/ PsciStep(c) /\ UNCHANGED other_vars

PsciSpec ==
  /\ Init /\ [][PsciNext]_vars
  /\ \A c \in CPUs :
        WF_vars((EventStep(c) \/ PsciStep(c)) /\ UNCHANGED other_vars)

(* the root cell's management calls alone, under the same scheduling *)
MgmtNext ==
  \E c \in CPUs :
     \/ EventStep(c) /\ UNCHANGED other_vars
     \/ MgmtCall(c) /\ UNCHANGED other_vars
     \/ MgmtStep(c) /\ UNCHANGED other_vars

MgmtSpec ==
  /\ Init /\ [][MgmtNext]_vars
  /\ \A c \in CPUs :
        WF_vars((EventStep(c) \/ MgmtStep(c)) /\ UNCHANGED other_vars)

(* the root cell's management calls and its requests to flush the TLBs of  *)
(* a cell's CPUs                                                            *)
FlushCall(c) == \E cell \in CellIds : arch_flush_cell_vcpu_caches(c, cell)

FlushStep(c) ==
  \/ arch_flush_cell_vcpu_caches_cpu(c)
  \/ check_events_clear(c)
  \/ arm_paging_vcpu_flush_tlbs(c)

FlushNext ==
  \E c \in CPUs :
     \/ EventStep(c) /\ UNCHANGED other_vars
     \/ MgmtCall(c) /\ UNCHANGED other_vars
     \/ MgmtStep(c) /\ UNCHANGED other_vars
     \/ FlushCall(c) /\ UNCHANGED other_vars
     \/ FlushStep(c) /\ UNCHANGED other_vars

(* the flushes are requested of running CPUs and, as config_commit does,  *)
(* of CPUs the root cell has suspended                                      *)
FlushInit ==
  /\ gic = InitGic /\ trap = InitTrap
  /\ cells = [k \in CellIds |-> InitCell(k)]
  /\ mgmt = IdleMgmt
  /\ control_lock = [c \in CPUs |-> NoCpu]
  /\ sgi_event = [c \in CPUs |-> FALSE]
  /\ ELR_hyp = [c \in CPUs |-> 0]
  /\ vcpu_mm = [c \in CPUs |-> IF c = 1 THEN PARKING_MM ELSE CELL_MM]
  /\ usr = [c \in CPUs |-> ZeroRegs]
  /\ calls = 0
  /\ \E S \in SUBSET cells[GUEST_CELL].cpu_set :
        /\ per_cpu = [c \in CPUs |->
              IF c \in S
              THEN [InitPerCpu(c) EXCEPT !.suspend_cpu = TRUE,
                                         !.cpu_suspended = TRUE]
              ELSE InitPerCpu(c)]
        /\ pc = [c \in CPUs |-> IF c \in S THEN "ce_spin" ELSE "guest"]
        /\ frame = [c \in CPUs |->
              IF c \in S THEN [IdleFrame EXCEPT !.exit = "irq"]
              ELSE IdleFrame]
        /\ hist = [req |-> [c \in CPUs |-> NoArgs],
                   kick |-> [c \in CPUs |-> NoArgs],
                   suspends |-> [c \in CPUs |-> IF c \in S THEN 1 ELSE 0],
                   flush |-> [c \in CPUs |-> NoFlush]]

FlushSpec == FlushInit /\ [][FlushNext]_vars

(* cell creation, start and destruction by the root cell, while the cells  *)
(* issue PSCI power calls                                                   *)
CellCall(r) ==
  \/ \E k \in CellIds \ {ROOT_CELL} :
        \/ \E S \in SUBSET CPUs : cell_create(r, k, S)
        \/ cell_start(r, k)
        \/ cell_destroy(r, k)

CellStep(r) ==
  \/ cell_suspend_cpu(r)
  \/ cell_create_arch(r)
  \/ cell_park_cpu(r)
  \/ cell_resume_cpu(r)
  \/ cell_create_return(r)
  \/ cell_start_reset(r)
  \/ cell_reset_cpu(r)
  \/ cell_start_return(r)
  \/ cell_destroy_park(r)
  \/ cell_destroy_arch(r)
  \/ arch_cell_destroy_loop(r)
  \/ arch_cell_destroy_exit(r)

(* the steps of arch_suspend_cpu and arch_resume_cpu the operations run *)
CellMgmtStep(r) == mgmt.cpu = r /\ MgmtStep(r)

(* the CPU_ON and CPU_OFF calls of the guests; the root cell issues none    *)
(* while it runs a cell management operation                                *)
CellPowerCall(c) ==
  /\ mgmt.op # "none" => per_cpu[c].cell # ROOT_CELL
  /\ \E fn \in {PSCI_CPU_OFF, PSCI_CPU_ON_32}, mpidr \in CPUs, p \in GuestPCs :
        psci_dispatch(c, "hvc", fn,
                      IF fn = PSCI_CPU_ON_32 THEN mpidr ELSE 0,
                      IF fn = PSCI_CPU_ON_32 THEN 8 ELSE 0,
                      IF fn = PSCI_CPU_ON_32 THEN 5 ELSE 0, p)

CellNext ==
  \E c \in CPUs :
     \/ EventStep(c) /\ UNCHANGED other_vars
     \/ CellPowerCall(c) /\ UNCHANGED other_vars
     \/ PsciStep(c) /\ UNCHANGED other_vars
     \/ CellMgmtStep(c) /\ UNCHANGED other_vars
     \/ CellCall(c)
     \/ CellStep(c)

CellSpec == Init /\ [][CellNext]_vars

(* the destruction of a cell whose CPUs issue CPU_ON and CPU_OFF calls; the *)
(* root cell issues no PSCI call of its own                                 *)
GuestPowerCall(c) == per_cpu[c].cell # ROOT_CELL /\ CellPowerCall(c)

DestroyStep(r) ==
  \/ cell_suspend_cpu(r)
  \/ cell_destroy_park(r)
  \/ cell_park_cpu(r)
  \/ cell_destroy_arch(r)
  \/ arch_cell_destroy_loop(r)
  \/ arch_cell_destroy_exit(r)

DestroyNext ==
  \E c \in CPUs :
     \/ EventStep(c) /\ UNCHANGED other_vars
     \/ GuestPowerCall(c) /\ UNCHANGED other_vars
     \/ PsciStep(c) /\ UNCHANGED other_vars
     \/ CellMgmtStep(c) /\ UNCHANGED other_vars
     \/ \E k \in CellIds \ {ROOT_CELL} : cell_destroy(c, k)
     \/ DestroyStep(c)

DestroySpec == Init /\ [][DestroyNext]_vars

(* interrupt injection into the list registers of one CPU, with 1 to MaxLr *)
(* list registers, and the guest acknowledging and completing interrupts   *)
GicInit ==
  /\ InitControl
  /\ gic \in {GicWith(n) : n \in 1 .. MaxLr}
  /\ trap = InitTrap

GicNext ==
  \/ \E irq_id \in IrqIds : gic_inject_irq(irq_id)
  \/ \E i \in 0 .. (gic.num_lr - 1) : gic_guest_ack(i)
  \/ \E i \in 0 .. (gic.num_lr - 1) : gic_guest_complete(i)

GicSpec == GicInit /\ [][GicNext]_vars

(* the trap dispatcher run once on each trapped instruction of CondTraps  *)
(* and Cp15Traps                                                           *)
TrapInit ==
  /\ InitControl
  /\ gic = InitGic
  /\ \/ trap \in CondTraps
     \/ trap \in Cp15Traps
     \/ trap \in ItTraps
     \/ trap \in RegTraps
     \/ trap \in OobTraps

TrapNext ==
  \E result \in HandlerResults, verdict \in DabtVerdicts :
    arch_handle_trap(result, verdict)

TrapSpec == TrapInit /\ [][TrapNext]_vars

(* ------------------------------- claims --------------------------------- *)
(* CPU c, which is inside the hypervisor, takes the step *)
Stepped(c) == pc'[c] # pc[c]

(* check_events between setting cpu_suspended under the lock and clearing   *)
(* it under the lock                                                        *)
SuspendWindow == {"ce_top", "ce_spin", "ce_relock", "ce_check"}

InSuspendWindow(t) ==
  /\ pc[t] \in SuspendWindow
  /\ pc[t] = "ce_top" => per_cpu[t].cpu_suspended

C1_Flag ==
  \A t \in CPUs : per_cpu[t].cpu_suspended => InSuspendWindow(t)

C1_Return ==
  \A c \in CPUs :
     (pc[c] \in {"sus_body", "sus_wait"} /\ pc'[c] = "guest") =>
        LET t == frame[c].target
        IN  per_cpu'[t].cpu_suspended /\ pc'[t] \in SuspendWindow

C1_Stay ==
  \A t \in CPUs :
     (per_cpu[t].cpu_suspended /\ per_cpu[t].suspend_cpu
        /\ per_cpu'[t].suspend_cpu) =>
           (per_cpu'[t].cpu_suspended /\ pc'[t] \in SuspendWindow)

(* C1: a CPU whose cpu_suspended flag is set is inside the suspend window   *)
(* of check_events and not in guest code; when arch_suspend_cpu returns the *)
(* target is in the window, and it stays there with the flag set for as     *)
(* long as suspend_cpu is not cleared.                                      *)
C1_SuspendHandshake == [](C1_Flag) /\ [][C1_Return /\ C1_Stay]_vars

C1_Witness ==
  \E t \in CPUs :
     /\ hist.suspends[t] = 1 /\ pc[2] = "guest"
     /\ per_cpu[t].cpu_suspended /\ per_cpu[t].suspend_cpu
     /\ pc[t] = "ce_spin"

(* C2: a CPU that returns to the guest with wait_for_poweron set has the    *)
(* parking map installed and ELR_hyp = 0.                                   *)
C2_ParkedAtGuestEntry ==
  \A c \in CPUs :
     (pc[c] = "guest" /\ per_cpu[c].wait_for_poweron) =>
        (vcpu_mm[c] = PARKING_MM /\ ELR_hyp[c] = 0)

CellVirtIds(c) ==
  {per_cpu[d].virt_id : d \in {d \in CPUs : per_cpu[d].cell = per_cpu[c].cell}}

C3_Write ==
  \A c \in CPUs :
     LET t == frame[c].target IN
     (pc[c] = "on_body" /\ Stepped(c) /\ per_cpu[t].wait_for_poweron) =>
        /\ control_lock[t] = c
        /\ per_cpu'[t].cpu_on_entry = usr[c][2]
        /\ per_cpu'[t].cpu_on_context = usr[c][3]
        /\ per_cpu'[t].reset
        /\ sgi_event' = sgi_event
        /\ pc'[c] = "on_kick"

C3_Kick ==
  \A c \in CPUs :
     LET t == frame[c].target IN
     (pc[c] = "on_kick" /\ Stepped(c)) =>
        /\ control_lock[t] # c
        /\ sgi_event'[t]
        /\ pc'[c] = "guest" /\ usr'[c][0] = U32(PSCI_SUCCESS)

(* the target starts the check_events pass that takes the kick of a CPU_ON *)
C3_Observe ==
  \A t \in CPUs :
     (hist.kick[t] # NoArgs /\ hist.kick'[t] = NoArgs) =>
        /\ per_cpu[t].reset
        /\ per_cpu[t].cpu_on_entry = hist.kick[t][1]
        /\ per_cpu[t].cpu_on_context = hist.kick[t][2]

C3_Pending ==
  \A t \in CPUs :
     hist.req[t] # NoArgs =>
        /\ per_cpu[t].reset
        /\ per_cpu[t].cpu_on_entry = hist.req[t][1]
        /\ per_cpu[t].cpu_on_context = hist.req[t][2]

Booted(t, a) ==
  /\ pc[t] = "guest" /\ ~per_cpu[t].wait_for_poweron
  /\ ELR_hyp[t] = a[1]
  /\ usr[t] = [ZeroRegs EXCEPT ![1] = a[2]]
  /\ vcpu_mm[t] = CELL_MM

(* C4: a CPU_ON(target, entry, ctx) that returns SUCCESS leads to the       *)
(* target entering the guest with wait_for_poweron false, ELR_hyp = entry,  *)
(* r1 = ctx, the other user registers 0 and the cell's stage-2 map.         *)
C4_SecondaryBoot ==
  \A t \in CPUs : \A a \in CpuOnArgs : (hist.req[t] = a) ~> Booted(t, a)

C5_PowerOn ==
  \A t \in CPUs : (hist.req[t] # NoArgs) ~> ~per_cpu[t].wait_for_poweron

C5_AffinityInfo ==
  \A c \in CPUs, exit \in {"hvc", "smc"}, mpidr \in CPUs, p \in GuestPCs :
     (psci_dispatch(c, exit, PSCI_AFFINITY_INFO_32, mpidr, 0, 0, p)
        /\ mpidr \in CellVirtIds(c)) =>
          LET t == arm_cpu_virt2phys(per_cpu[c].cell, mpidr)
          IN  /\ pc'[c] = "guest"
              /\ usr'[c][0] = IF per_cpu[t].wait_for_poweron
                              THEN PSCI_CPU_IS_OFF ELSE PSCI_CPU_IS_ON

C5_CpuOff ==
  \A c \in CPUs :
     (pc[c] = "park_reset" /\ Stepped(c) /\ frame[c].exit \in {"hvc", "smc"})
        => per_cpu'[c].wait_for_poweron

C5_StaysOff ==
  \A t \in CPUs :
     (per_cpu[t].wait_for_poweron /\ ~per_cpu'[t].wait_for_poweron) =>
        /\ pc[t] = "ce_reset" /\ per_cpu[t].reset
        /\ per_cpu[t].cpu_on_entry # PSCI_INVALID_ADDRESS

C6_CellIsolation ==
  [][\A c \in CPUs, exit \in {"hvc", "smc"}, mpidr \in CPUs, a \in CpuOnArgs,
        p \in GuestPCs :
        /\ (psci_dispatch(c, exit, PSCI_CPU_ON_32, mpidr, a[1], a[2], p)
              /\ mpidr \notin CellVirtIds(c)) =>
             (/\ usr'[c][0] = U32(PSCI_DENIED) /\ pc'[c] = "guest"
              /\ per_cpu' = per_cpu /\ control_lock' = control_lock
              /\ sgi_event' = sgi_event)
        /\ (psci_dispatch(c, exit, PSCI_AFFINITY_INFO_32, mpidr, 0, 0, p)
              /\ mpidr \notin CellVirtIds(c)) =>
             (/\ usr'[c][0] = U32(PSCI_DENIED) /\ pc'[c] = "guest"
              /\ per_cpu' = per_cpu /\ control_lock' = control_lock
              /\ sgi_event' = sgi_event)]_vars

C6_Witness ==
  \E c \in CPUs :
     /\ per_cpu[c].cell = GUEST_CELL /\ per_cpu[2].cell = ROOT_CELL
     /\ pc[c] = "guest" /\ usr[c][1] = 2 /\ usr[c][2] # 0
     /\ usr[c][0] = U32(PSCI_DENIED)

(* C7: CPU_ON for a CPU of the cell whose wait_for_poweron is false returns *)
(* ALREADY_ON and changes nothing: no per-CPU record is written and no SGI  *)
(* is sent.                                                                 *)
C7_AlreadyOn ==
  [][\A c \in CPUs :
        (pc[c] = "on_body" /\ Stepped(c)
           /\ ~per_cpu[frame[c].target].wait_for_poweron) =>
              (/\ usr'[c][0] = U32(PSCI_ALREADY_ON) /\ pc'[c] = "guest"
               /\ per_cpu' = per_cpu /\ sgi_event' = sgi_event)]_vars

C7_Witness ==
  \E c \in CPUs :
     /\ pc[c] = "guest" /\ usr[c][0] = U32(PSCI_ALREADY_ON)
     /\ usr[c][1] \in CellVirtIds(c) /\ usr[c][2] # 0

(* C8: arch_suspend_cpu on a target that was already suspended by an        *)
(* earlier call and not resumed since returns without a kick and without    *)
(* waiting, and the target stays in the suspend window; the spinning target *)
(* does not hold its lock, so the call is never blocked by it.              *)
C8_SecondSuspend ==
  /\ [](\A t \in CPUs :
          (per_cpu[t].cpu_suspended /\ pc[t] \in {"ce_spin", "ce_relock"})
             => control_lock[t] # t)
  /\ [][\A c \in CPUs :
        (pc[c] = "sus_body" /\ Stepped(c) /\ hist.suspends[frame[c].target] >= 1)
          => LET t == frame[c].target
             IN  /\ pc'[c] = "guest"
                 /\ sgi_event' = sgi_event
                 /\ per_cpu'[t].cpu_suspended /\ per_cpu'[t].suspend_cpu
                 /\ pc'[t] \in SuspendWindow]_vars

C8_Witness ==
  \E t \in CPUs :
     /\ hist.suspends[t] = 2 /\ pc[2] = "guest"
     /\ per_cpu[t].cpu_suspended /\ pc[t] \in SuspendWindow

C9_Leaves ==
  \A t \in CPUs :
     (~per_cpu[t].suspend_cpu /\ pc[t] \in SuspendWindow)
        ~> (per_cpu[t].suspend_cpu
              \/ (~per_cpu[t].cpu_suspended /\ pc[t] = "guest"))

C9_Clears ==
  \A t \in CPUs :
     (per_cpu[t].cpu_suspended /\ ~per_cpu'[t].cpu_suspended) =>
        /\ pc[t] = "ce_check" /\ control_lock[t] = t
        /\ ~per_cpu[t].suspend_cpu

(* C9: once suspend_cpu is clear and stays clear, a CPU in the suspend      *)
(* window of check_events leaves the spin loop, clears cpu_suspended while  *)
(* it holds its own lock and returns from check_events to the guest.        *)
C9_ResumeLiveness == C9_Leaves /\ [][C9_Clears]_vars

C9_Witness ==
  \E t \in CPUs :
     /\ pc[t] = "ce_spin" /\ per_cpu[t].cpu_suspended
     /\ ~per_cpu[t].suspend_cpu /\ hist.suspends[t] = 0

HeldBy(c) == {t \in CPUs : control_lock[t] = c}

LockedSections ==
  {"ce_top", "ce_check", "ce_reset", "ce_flush", "park_off", "on_body",
   "sus_body", "res_body"}

(* C10: no CPU holds two control_locks, a CPU holds a lock only inside a    *)
(* critical section of one of the operations, and never in guest mode.      *)
C10_LockDiscipline ==
  \A c \in CPUs :
     /\ Cardinality(HeldBy(c)) <= 1
     /\ HeldBy(c) # {} => pc[c] \in LockedSections
     /\ pc[c] = "guest" => HeldBy(c) = {}

C10_Witness ==
  \E c \in CPUs, t \in CPUs :
     c # t /\ control_lock[t] = c /\ pc[t] \in {"ce_relock", "park_lock"}

(* ---------------------- claims on the cell lifecycle -------------------- *)
VirtIds(k) == {per_cpu[c].virt_id : c \in cells[k].cpu_set}

(* the virtual ids of cell k's CPUs are 0, 1, ... without gap or duplicate *)
Contiguous(k) == VirtIds(k) = 0 .. (Cardinality(cells[k].cpu_set) - 1)

(* cell k exists and no cell operation is working on it *)
Settled(k) == cells[k].exists /\ (mgmt.op = "none" \/ mgmt.cell # k)

(* C11 as claimed: when arch_cell_create has returned 0 or                 *)
(* arch_cell_destroy has returned, the virtual ids of every cell, the root *)
(* cell included, are exactly 0 .. last_virt_id                            *)
C11_AsClaimed ==
  mgmt.phase \in {"created", "destroyed"} =>
    \A k \in CellIds :
       cells[k].exists =>
         /\ Contiguous(k)
         /\ k # ROOT_CELL =>
              cells[k].last_virt_id = Cardinality(cells[k].cpu_set) - 1

(* C11: whatever cells were created and destroyed, the virtual ids of the  *)
(* CPUs of every created (non-root) cell are exactly 0 .. last_virt_id,    *)
(* without gap or duplicate                                                *)
C11_CreatedCellIds ==
  \A k \in CellIds \ {ROOT_CELL} :
     Settled(k) =>
       /\ Contiguous(k)
       /\ cells[k].last_virt_id = Cardinality(cells[k].cpu_set) - 1

(* a cell was created on physical CPU 1 alone, which is its virtual CPU 0, *)
(* after the first cell was destroyed                                      *)
C11_Witness ==
  \E k \in CellIds \ {ROOT_CELL} :
     /\ mgmt.phase = "created"
     /\ cells[k].exists /\ cells[k].cpu_set = {1}
     /\ per_cpu[1].virt_id = 0

(* arch_cell_create returns 0: the creation goes on to park the CPUs *)
CreateSucceeds ==
  mgmt.op = "create" /\ mgmt.phase = "suspend" /\ mgmt'.phase = "park"

C12_Created ==
  LET S == cells'[mgmt.cell].cpu_set
      first == Min(S) IN
  CreateSucceeds =>
    /\ {c \in S : per_cpu'[c].cpu_on_entry # PSCI_INVALID_ADDRESS} = {first}
    /\ per_cpu'[first].virt_id = 0
    /\ per_cpu'[first].cpu_on_entry = 0

C12_ResetWithoutEntry ==
  \A c \in CPUs :
     /\ pc[c] = "ce_reset" /\ Stepped(c) /\ per_cpu[c].reset
        /\ per_cpu[c].cpu_on_entry = PSCI_INVALID_ADDRESS
        => /\ per_cpu'[c].wait_for_poweron /\ ~per_cpu'[c].reset
           /\ ~frame'[c].reset
     /\ pc[c] = "ce_flush" /\ Stepped(c) /\ per_cpu[c].wait_for_poweron
        => pc'[c] = "park_lock" /\ vcpu_mm'[c] = vcpu_mm[c]

(* C12: when arch_cell_create has returned 0 for a cell with CPUs, exactly *)
(* one CPU of the cell has a cpu_on_entry other than the invalid address:  *)
(* its lowest-numbered physical CPU, which has virt_id 0 and cpu_on_entry  *)
(* 0; a CPU that is reset while its cpu_on_entry is the invalid address    *)
(* enters the off state (wait_for_poweron true) and goes on to park        *)
(* instead of running guest code.                                          *)
C12_FirstCpuEntry == [][C12_Created /\ C12_ResetWithoutEntry]_vars

(* the second CPU of a cell created on CPUs 0 and 1 was reset by the       *)
(* cell's start and has entered the off state                              *)
C12_Witness ==
  /\ mgmt.op = "start" /\ mgmt.phase = "reset" /\ 1 \notin mgmt.todo
  /\ mgmt.set = {0, 1} /\ per_cpu[1].cpu_on_entry = PSCI_INVALID_ADDRESS
  /\ pc[1] = "ce_flush" /\ ~per_cpu[1].reset /\ ~per_cpu[1].park
  /\ per_cpu[1].wait_for_poweron

(* arch_cell_create returns: the creation leaves the suspend phase *)
CreateReturns ==
  mgmt.op = "create" /\ mgmt.phase = "suspend" /\ mgmt'.phase # "suspend"

(* C14: when the paging initialisation fails, arch_cell_create returns its *)
(* error and has done nothing else: no CPU is renumbered and the cell is   *)
(* as it was; when the interrupt controller initialisation fails, the      *)
(* stage-2 paging that was built is destroyed, the signaling tables are    *)
(* not initialised and the interrupt controller's error is returned; it    *)
(* returns 0 only with paging, interrupt controller and signaling tables   *)
(* in place.                                                               *)
C14_Unwinding ==
  [][CreateReturns =>
       LET cell == cells'[mgmt.cell] IN
       /\ mgmt'.err \in PagingResults \cup IrqchipResults
       /\ mgmt'.err \in PagingResults \ {0} =>
            per_cpu' = per_cpu /\ cells' = cells /\ cell.mm = "none"
       /\ mgmt'.err \in IrqchipResults \ {0} =>
            cell.mm = "destroyed" /\ ~cell.smp /\ ~cell.irqchip
       /\ mgmt'.err = 0 => cell.mm = "built" /\ cell.smp /\ cell.irqchip
       /\ (mgmt'.phase = "park") = (mgmt'.err = 0)]_vars

(* a creation whose interrupt controller initialisation failed *)
C14_Witness ==
  /\ mgmt.op = "create" /\ mgmt.phase = "resume"
  /\ mgmt.err \in IrqchipResults \ {0}
  /\ cells[mgmt.cell].mm = "destroyed"

(* CPU c is in guest mode with no SGI_EVENT pending: it takes no step      *)
(* until it is kicked                                                      *)
Quiescent(c) == pc[c] = "guest" /\ ~sgi_event[c]

(* C13: once the destruction of a non-root cell has returned, every CPU    *)
(* that was in the cell has come to rest waiting for power-on, with        *)
(* virt_id = cpu_id and no entry address                                   *)
C13_DestroyedCellCpus ==
  mgmt.phase = "destroyed" =>
    \A c \in mgmt.set :
       Quiescent(c) =>
         /\ per_cpu[c].wait_for_poweron
         /\ per_cpu[c].virt_id = per_cpu[c].cpu_id
         /\ per_cpu[c].cpu_on_entry = PSCI_INVALID_ADDRESS

(* ---------------------- claims on the list registers -------------------- *)
NonEmpty == {i \in 0 .. (gic.num_lr - 1) : gic.lr[i].state # "invalid"}

(* C15: whatever interrupts were injected and completed, no two non-empty  *)
(* list registers of the CPU hold the same virtual id                      *)
C15_NoDuplicateVirtId ==
  \A i \in NonEmpty, j \in NonEmpty :
     i # j => gic.lr[i].virt_id # gic.lr[j].virt_id

(* both list registers hold an interrupt, the first one re-injected after  *)
(* a completion, and the last injection was refused as a duplicate         *)
C15_Witness ==
  /\ gic.num_lr = 2 /\ NonEmpty = {0, 1}
  /\ gic.completed /\ gic.ret = -EEXIST

Holds(irq_id) == \E i \in NonEmpty : gic.lr[i].virt_id = irq_id
Empty == (0 .. (gic.num_lr - 1)) \ NonEmpty


(* the step is a call of gic_inject_irq *)
InjectStep == gic'.last = "inject"

C16_Result ==
  LET irq_id == gic'.irq IN
  InjectStep =>
    /\ Holds(irq_id) => gic'.ret = -EEXIST /\ gic'.lr = gic.lr
    /\ ~Holds(irq_id) /\ Empty = {} => gic'.ret = -EBUSY /\ gic'.lr = gic.lr
    /\ ~Holds(irq_id) /\ Empty # {} =>
         /\ gic'.ret = 0
         /\ gic'.lr = [gic.lr EXCEPT ![Min(Empty)] = gic_new_lr(irq_id)]
    /\ gic'.ret \in {-EEXIST, -EBUSY} => gic'.lr = gic.lr

C16_DistinctIds ==
  LET irq_id == gic'.irq IN
  InjectStep /\ ~gic.completed /\ irq_id \notin gic.injected =>
    gic'.ret = IF Cardinality(gic.injected) < gic.num_lr THEN 0 ELSE -EBUSY

(* C16: gic_inject_irq returns -EEXIST when a non-empty list register      *)
(* holds the id (also when no register is empty), otherwise -EBUSY when no *)
(* register is empty, otherwise 0 after writing exactly the lowest empty   *)
(* register; a call that returns -EEXIST or -EBUSY changes no register;    *)
(* distinct ids injected into N empty registers succeed for the first N    *)
(* and get -EBUSY from then on.                                            *)
C16_InjectResult == [][C16_Result /\ C16_DistinctIds]_vars

(* with two list registers, the third distinct id was refused *)
C16_Witness ==
  /\ gic.num_lr = 2 /\ ~gic.completed
  /\ Cardinality(gic.injected) = 3 /\ gic.ret = -EBUSY

(* the dispatcher has returned from the trap *)
TrapReturned == trap.phase = "returned"

(* ConditionPassed() of the ARMv7 architecture: cond<3:1> selects the     *)
(* test, cond<0> inverts it except in the encoding 0b1111; flags = NZCV   *)
ConditionPassed(cond, flags) ==
  LET N == Bit(flags, 3) = 1
      Z == Bit(flags, 2) = 1
      C == Bit(flags, 1) = 1
      V == Bit(flags, 0) = 1
      test == cond \div 2
      result == IF test = 0 THEN Z
                ELSE IF test = 1 THEN C
                ELSE IF test = 2 THEN N
                ELSE IF test = 3 THEN V
                ELSE IF test = 4 THEN C /\ ~Z
                ELSE IF test = 5 THEN N = V
                ELSE IF test = 6 THEN (N = V) /\ ~Z
                ELSE TRUE
  IN  IF cond % 2 = 1 /\ cond # 15 THEN ~result ELSE result

(* C18: for the condition code and the NZCV flags of every trapped         *)
(* instruction the dispatcher ran on (all 16 codes under all 16 flag       *)
(* nibbles), bit flags of cc_map[cond] is the architecture's truth value   *)
(* of the condition under the flags.                                       *)
C18_CcMapTruth ==
  TrapReturned =>
    ((Bit(cc_map[trap.hsr.cond + 1], trap.cpsr.nzcv) = 1)
       <=> ConditionPassed(trap.hsr.cond, trap.cpsr.nzcv))

(* the condition check of a trapped instruction as the dispatcher's        *)
(* contract words it: a class that is neither zero nor has bit 5 or 4 set, *)
(* a condition from the syndrome if CV is set and from a non-zero IT state *)
(* otherwise, and a 0 in cc_map for the condition under the flags          *)
FailedCondition(t) ==
  /\ t.hsr.ec # 0
  /\ Bit(t.hsr.ec, 5) = 0 /\ Bit(t.hsr.ec, 4) = 0
  /\ \/ /\ t.hsr.cv
        /\ Bit(cc_map[t.hsr.cond + 1], t.cpsr.nzcv) = 0
     \/ /\ ~t.hsr.cv
        /\ PSR_IT(t.cpsr) # 0
        /\ Bit(cc_map[(PSR_IT(t.cpsr) \div 16) + 1], t.cpsr.nzcv) = 0

(* ITAdvance() of the architecture on IT[7:0] *)
ITAdvance(it) ==
  IF it % 8 = 0 THEN 0 ELSE (it \div 32) * 32 + ((it % 16) * 2)

TrapStep == trap.phase = "trapped" /\ trap'.phase = "returned"

(* C17: when the condition of the trapped instruction failed,              *)
(* arch_handle_trap calls no handler and parks nothing; it adds 4 (IL set) *)
(* or 2 to the PC, advances the IT state and writes both back, and changes *)
(* no guest general-purpose register, no system register, and nothing      *)
(* else.                                                                   *)
C17_FailedConditionSkips ==
  [][TrapStep /\ FailedCondition(trap) =>
       /\ trap'.handler = "none" /\ trap'.ret = trap.ret
       /\ ~trap'.parked /\ trap'.mm = trap.mm
       /\ trap'.pc = U32(trap.pc + (IF trap.hsr.il THEN 4 ELSE 2))
       /\ PSR_IT(trap'.cpsr) = ITAdvance(PSR_IT(trap.cpsr))
       /\ trap'.cpsr.nzcv = trap.cpsr.nzcv
       /\ trap'.cpsr.mode = trap.cpsr.mode
       /\ trap'.ELR_hyp = trap'.pc /\ trap'.SPSR_hyp = trap'.cpsr
       /\ trap'.regs = trap.regs /\ trap'.banked = trap.banked
       /\ trap'.fiq = trap.fiq
       /\ trap'.sysregs = trap.sysregs /\ trap'.wrote = {}
       /\ trap'.actlr = trap.actlr /\ trap'.hsr = trap.hsr
       /\ UNCHANGED <<control_vars, gic>>]_vars

(* an MCR with cond = EQ that trapped while Z = 0 was skipped *)
C17_Witness ==
  /\ TrapReturned /\ trap.skipped
  /\ trap.hsr.ec = HSR_EC_CP15_32 /\ ~trap.hsr.read
  /\ trap.hsr.cv /\ trap.hsr.cond = 0 /\ trap.cpsr.nzcv = 0
  /\ trap.hsr.il /\ trap.ELR_hyp = 12

(* the registers the CP15_32 write allow-list names, as                    *)
(* <<CRn, op1, CRm, op2>>: SCTLR, TTBR0, TTBR1, TTBCR, DACR, DFSR, IFSR,    *)
(* DFAR, IFAR, ADFSR, AIFSR, MAIR0, MAIR1, CONTEXTIDR                       *)
AllowList ==
  { <<1, 0, 0, 0>>, <<2, 0, 0, 0>>, <<2, 0, 0, 1>>, <<2, 0, 0, 2>>,
    <<3, 0, 0, 0>>, <<5, 0, 0, 0>>, <<5, 0, 0, 1>>, <<6, 0, 0, 0>>,
    <<6, 0, 0, 2>>, <<5, 0, 1, 0>>, <<5, 0, 1, 1>>, <<10, 0, 2, 0>>,
    <<10, 0, 2, 1>>, <<13, 0, 0, 1>> }

Cp15Reg(hsr) == <<hsr.crn, hsr.op1, hsr.crm, hsr.op2>>

(* arch_handle_cp15_32 has run on a write *)
Cp15Write32 ==
  /\ TrapReturned
  /\ trap.handler = "arch_handle_cp15_32"
  /\ ~trap.hsr.read

Rejected == trap.ret = "TRAP_UNHANDLED" /\ trap.wrote = {}

(* C19 as claimed: every trapped 32-bit CP15 write of a register that is   *)
(* not on the allow-list returns TRAP_UNHANDLED and writes no real system  *)
(* register.                                                               *)
C19_AsClaimed ==
  Cp15Write32 /\ Cp15Reg(trap.hsr) \notin AllowList => Rejected

(* C19: every trapped 32-bit CP15 write of a register that is neither on   *)
(* the allow-list nor ACTLR returns TRAP_UNHANDLED, and no write of a      *)
(* register that is not on the allow-list, ACTLR included, writes a real   *)
(* system register.                                                        *)
C19_ClosedAllowList ==
  Cp15Write32 /\ Cp15Reg(trap.hsr) \notin AllowList =>
    /\ trap.wrote = {}
    /\ Cp15Reg(trap.hsr) # <<1, 0, 0, 1>> => Rejected

(* a write of CPACR (1,0,0,2) was rejected and the CPU parked *)
C19_Witness ==
  /\ Cp15Write32 /\ Cp15Reg(trap.hsr) = <<1, 0, 0, 2>>
  /\ Rejected /\ trap.parked

Refused(t) == t.ret \in {"TRAP_UNHANDLED", "TRAP_FORBIDDEN"}

(* C20: when the handler of a trap returns UNHANDLED or FORBIDDEN, or the  *)
(* exception class has no handler, the trapping CPU is parked and the      *)
(* dispatcher leaves ELR_hyp and SPSR_hyp as parking set them, so the CPU  *)
(* resumes in the parking stage-2 map at the parking code (ELR_hyp = 0)    *)
(* and not at the trapped PC; the per-CPU state of the other CPUs is       *)
(* unchanged; after HANDLED the context's PC and PSR are written back.     *)
C20_UnhandledTrapContained ==
  [][TrapStep /\ ~trap'.skipped =>
       /\ Refused(trap') =>
            /\ trap'.parked /\ trap'.mm = PARKING_MM
            /\ trap'.ELR_hyp = 0 /\ trap'.SPSR_hyp = RESET_PSR
       /\ ~Refused(trap') =>
            /\ trap'.ELR_hyp = trap'.pc /\ trap'.SPSR_hyp = trap'.cpsr
       /\ UNCHANGED per_cpu]_vars

(* the dispatcher has run arch_skip_instruction on the trapped context:   *)
(* after a failed condition, or in a handler that completed the access    *)
Skips ==
  /\ TrapStep
  /\ \/ trap'.skipped
     \/ /\ trap'.ret = "TRAP_HANDLED"
        /\ trap'.handler \in {"arch_handle_smc", "arch_handle_cp15_32",
                              "arch_handle_cp15_64", "arch_handle_dabt"}

(* the advance rule as claimed: clear when the shifted 5-bit tail is zero *)
ShiftedTail(it) == ((it % 32) * 2) % 32

TailAdvance(it) ==
  IF it = 0 THEN 0
  ELSE IF ShiftedTail(it) = 0 THEN 0
  ELSE (it \div 32) * 32 + ShiftedTail(it)

(* C21 as claimed: a skip leaves IT = 0 unchanged; otherwise it keeps the  *)
(* top 3 bits and replaces the low 5 bits by (low5 << 1) & 0x1f, and       *)
(* clears the whole field if that shifted tail is zero; the result is      *)
(* written back into PSR bits 26:25 and 15:10.                             *)
C21_AsClaimed ==
  [][Skips =>
       LET it == TailAdvance(PSR_IT(trap.cpsr)) IN
       trap'.cpsr.it_lo = it % 4 /\ trap'.cpsr.it_hi = it \div 4]_vars

(* C21: a skip leaves IT = 0 unchanged; otherwise it clears the whole IT   *)
(* field if IT[2:0] is zero, and else keeps the top 3 bits and replaces    *)
(* the low 5 bits by (low5 << 1) & 0x1f; the result is written back into   *)
(* PSR bits 26:25 and 15:10.                                               *)
C21_ItAdvanceRule ==
  [][Skips =>
       LET it == PSR_IT(trap.cpsr)
           next == IF it = 0 THEN 0
                   ELSE IF it % 8 = 0 THEN 0
                   ELSE (it \div 32) * 32 + ShiftedTail(it)
       IN  trap'.cpsr.it_lo = next % 4 /\ trap'.cpsr.it_hi = next \div 4]_vars

(* an SMC in an IT block was skipped and left IT = 0b10111000: the block   *)
(* had two instructions left                                               *)
C21_Witness ==
  /\ TrapReturned /\ trap.handler = "arch_handle_smc"
  /\ PSR_IT(trap.cpsr) = 184 /\ trap.SPSR_hyp = trap.cpsr

(* C22: when the IT field of the guest PSR is non-zero with IT[2:0] = 0    *)
(* (the last instruction of an IT block), skipping the instruction leaves  *)
(* IT = 0 and adds 2 to the PC if IL is clear and 4 if it is set; no other *)
(* PSR bit changes.                                                        *)
C22_LastInItBlock ==
  [][Skips /\ PSR_IT(trap.cpsr) # 0 /\ PSR_IT(trap.cpsr) % 8 = 0 =>
       /\ PSR_IT(trap'.cpsr) = 0
       /\ trap'.pc = U32(trap.pc + (IF trap.hsr.il THEN 4 ELSE 2))
       /\ trap'.cpsr = [trap.cpsr EXCEPT !.it_lo = 0, !.it_hi = 0]
       /\ trap'.ELR_hyp = trap'.pc /\ trap'.SPSR_hyp = trap'.cpsr]_vars

(* a 16-bit SMC, the last instruction of a block with IT = 0b10101000, was *)
(* skipped: IT = 0 and PC = 8 + 2                                          *)
C22_Witness ==
  /\ TrapReturned /\ trap.handler = "arch_handle_smc"
  /\ PSR_IT(trap.entry.cpsr) = 168 /\ ~trap.hsr.il /\ trap.entry.pc = 8
  /\ PSR_IT(trap.cpsr) = 0 /\ trap.pc = 10

UserModes == {"usr", "sys"}

Bank(mode) == IF mode \in UserModes THEN "usr" ELSE mode

(* the stack slots and banked registers after val has been written to the *)
(* guest's r13 or r14, when the LR of USR/SYS mode is stack slot lr_slot   *)
AfterWrite(t, reg, val, lr_slot) ==
  IF reg = 14 /\ t.cpsr.mode \in UserModes
    THEN [regs |-> [r \in DOMAIN t.regs \cup {lr_slot} |->
                      IF r = lr_slot THEN val ELSE t.regs[r]],
          banked |-> t.banked]
  ELSE [regs |-> t.regs,
        banked |-> [t.banked EXCEPT ![Bank(t.cpsr.mode)][reg] = val]]

(* the value of the guest's r13 or r14, if the register exists *)
ValuesAt(t, reg, lr_slot) ==
  IF reg = 14 /\ t.cpsr.mode \in UserModes
    THEN {t.regs[r] : r \in DOMAIN t.regs \cap {lr_slot}}
  ELSE {t.banked[Bank(t.cpsr.mode)][reg]}

(* arch_handle_cp15_32 completed an access through the guest's r14, or     *)
(* through r13 in USR or SYS mode: a read of ACTLR went to that register,  *)
(* a register write took its value from it                                 *)
SelectsRegister(lr_slot) ==
  LET rt == trap.hsr.rt IN
  /\ TrapStep
  /\ trap'.handler = "arch_handle_cp15_32" /\ trap'.ret = "TRAP_HANDLED"
  /\ rt = 14 \/ (rt = 13 /\ trap.cpsr.mode \in UserModes)
  => /\ trap'.fiq = trap.fiq
     /\ IF trap.hsr.read
          THEN [regs |-> trap'.regs, banked |-> trap'.banked]
                 = AfterWrite(trap, rt, trap.actlr, lr_slot)
        ELSE /\ trap'.regs = trap.regs /\ trap'.banked = trap.banked
             /\ \A reg \in trap'.wrote :
                  trap'.sysregs[reg] \in ValuesAt(trap, rt, lr_slot)

(* C26 as claimed: in USR or SYS mode an access to r14 reads or writes     *)
(* the on-stack user register slot 14; in SVC, UND, ABT, IRQ and FIQ mode  *)
(* it accesses the banked LR of the mode; an access to r13 in USR or SYS   *)
(* mode uses the usr banked SP.                                            *)
C26_AsClaimed == [][SelectsRegister(14)]_vars

(* C26: in USR or SYS mode an access to r14 reads or writes the on-stack   *)
(* user register slot 13; in SVC, UND, ABT, IRQ and FIQ mode it accesses   *)
(* the banked LR of the mode; an access to r13 in USR or SYS mode uses the *)
(* usr banked SP.                                                          *)
C26_LrSelection == [][SelectsRegister(13)]_vars

(* a read of ACTLR into r14 in SYS mode has put the value in stack slot 13 *)
C26_Witness ==
  /\ TrapReturned /\ trap.handler = "arch_handle_cp15_32"
  /\ trap.hsr.read /\ trap.hsr.rt = 14 /\ trap.cpsr.mode = "sys"
  /\ trap.regs[13] = trap.actlr /\ trap.banked["usr"][14] # trap.actlr

(* the guest's general-purpose register reg in the mode of the trapped     *)
(* instruction                                                             *)
GuestReg(t, reg) ==
  IF reg \in 8 .. 12 /\ t.cpsr.mode = "fiq" THEN t.fiq[reg]
  ELSE IF reg \in 0 .. 12 THEN t.regs[reg]
  ELSE IF reg = 14 /\ t.cpsr.mode \in UserModes THEN t.regs[13]
  ELSE t.banked[Bank(t.cpsr.mode)][reg]

AccessesActlr ==
  /\ TrapStep
  /\ trap'.handler = "arch_handle_cp15_32"
  /\ Cp15Reg(trap.hsr) = <<1, 0, 0, 1>>

Completed ==
  /\ trap'.ret = "TRAP_HANDLED" /\ ~trap'.parked
  /\ trap'.actlr = trap.actlr
  /\ trap'.sysregs = trap.sysregs /\ trap'.wrote = {}
  /\ trap'.cpsr = arch_advance_itstate(trap.cpsr)

(* C23: a trapped read of ACTLR (1,0,0,1) puts the physical ACTLR value in *)
(* the guest's register Rt (r0..r14; with the encoding Rt = 15 the value   *)
(* goes to the PC before the skip); a trapped write of ACTLR changes       *)
(* neither the physical ACTLR nor any other real system register nor a     *)
(* guest register; both return TRAP_HANDLED and skip the instruction.      *)
C23_ActlrProtection ==
  [][AccessesActlr =>
       LET rt == trap.hsr.rt
           len == IF trap.hsr.il THEN 4 ELSE 2
       IN
       /\ Completed
       /\ trap.hsr.read /\ rt # 15 =>
            /\ GuestReg(trap', rt) = trap.actlr
            /\ trap'.pc = U32(trap.pc + len)
       /\ trap.hsr.read /\ rt = 15 => trap'.pc = U32(trap.actlr + len)
       /\ ~trap.hsr.read =>
            /\ trap'.pc = U32(trap.pc + len)
            /\ trap'.regs = trap.regs /\ trap'.banked = trap.banked
            /\ trap'.fiq = trap.fiq]_vars

(* a write of ACTLR from r0 was skipped and left ACTLR as it was *)
C23_Witness ==
  /\ TrapReturned /\ trap.handler = "arch_handle_cp15_32"
  /\ Cp15Reg(trap.hsr) = <<1, 0, 0, 1>> /\ ~trap.hsr.read
  /\ trap.hsr.rt = 0 /\ trap.regs[0] # trap.actlr
  /\ trap.ret = "TRAP_HANDLED" /\ trap.pc = 12 /\ trap.wrote = {}

(* C30: for every exception class, arch_handle_trap reads trap_handlers    *)
(* only at an index inside the table; a class without a registered         *)
(* handler, the classes 38..63 included, is treated as TRAP_UNHANDLED and  *)
(* no entry from outside the table is called.                              *)
C30_TableBounds ==
  TrapReturned /\ ~trap.skipped =>
    /\ trap.indexed \in 0 .. (NUM_TRAP_HANDLERS - 1)
    /\ trap_handlers(trap.hsr.ec) = "none" =>
         /\ trap.handler = "none"
         /\ trap.ret = "TRAP_UNHANDLED" /\ trap.parked

(* C27: while a CPU_ON request for a powered-off target is pending (it     *)
(* returned SUCCESS and the target has not yet consumed it in              *)
(* check_events), a further CPU_ON call for the target does not take the   *)
(* SUCCESS path and does not overwrite cpu_on_entry and cpu_on_context.    *)
C27_OneCpuOnPerPowerOn ==
  [][\A c \in CPUs :
       LET t == frame[c].target IN
       pc[c] = "on_body" /\ Stepped(c) /\ hist.req[t] # NoArgs =>
         /\ pc'[c] # "on_kick"
         /\ per_cpu'[t].cpu_on_entry = per_cpu[t].cpu_on_entry
         /\ per_cpu'[t].cpu_on_context = per_cpu[t].cpu_on_context]_vars

(* C29: when arch_cell_create returns an error, the virt_id and the        *)
(* cpu_on_entry of every CPU of the cell's CPU set and the last_virt_id of *)
(* the cell are what they were before the call.                            *)
C29_FailedCreateUnchanged ==
  [][CreateReturns /\ mgmt'.err # 0 =>
       /\ \A c \in cells[mgmt.cell].cpu_set :
            /\ per_cpu'[c].virt_id = per_cpu[c].virt_id
            /\ per_cpu'[c].cpu_on_entry = per_cpu[c].cpu_on_entry
       /\ cells'[mgmt.cell].last_virt_id
            = cells[mgmt.cell].last_virt_id]_vars

(* C24: a park or reset request made of a CPU that is executing guest      *)
(* code, unsuspended, makes the target re-enter its event loop, and the    *)
(* target eventually performs the transition: for park, wait_for_poweron   *)
(* is true and park is cleared; for reset, the reset flag is consumed.     *)
Requested(t, request) ==
  \E c \in CPUs :
     pc[c] = "res_lock" /\ frame[c].target = t /\ frame[c].on_running = request

C24_RunningCpuServesRequest ==
  \A t \in CPUs :
     /\ Requested(t, "park")
          ~> (per_cpu[t].wait_for_poweron /\ ~per_cpu[t].park)
     /\ Requested(t, "reset") ~> ~per_cpu[t].reset

(* C25: arch_flush_cell_vcpu_caches flushes the TLBs of the calling CPU    *)
(* inline, leaving its flag alone, and sets flush_vcpu_caches of every     *)
(* other CPU of the cell. A check_events pass of a CPU that began with the *)
(* flag set performs exactly one TLB flush, whether it ends in park, reset *)
(* or resume, and no pass flushes twice; the pass leaves the flag set only *)
(* if a request was made while it ran, and a request that no flush has     *)
(* served still has its flag set as the pass ends.                         *)
Iterates(c) ==
  /\ pc[c] = "flush_cpu"
  /\ pc'[c] # "flush_cpu" \/ frame'[c].target # frame[c].target

LeavesCheckEvents(c) ==
  /\ pc[c] \in {"ce_flush", "ce_tlbi"}
  /\ pc'[c] \in {"guest", "park_lock"}

FlushRequested(c) ==
  LET t == frame[c].target IN
  IF t = c
  THEN /\ hist'.flush[c].inline
       /\ per_cpu'[c].flush_vcpu_caches = per_cpu[c].flush_vcpu_caches
  ELSE per_cpu'[t].flush_vcpu_caches

FlushServed(c) ==
  LET f == hist'.flush[c] IN
  /\ f.done <= 1
  /\ f.flagged => f.done = 1
  /\ per_cpu'[c].flush_vcpu_caches => f.late
  /\ f.owed => per_cpu'[c].flush_vcpu_caches

C25_FlushRequests ==
  [][\A c \in CPUs :
       /\ Iterates(c) => FlushRequested(c)
       /\ LeavesCheckEvents(c) => FlushServed(c)]_vars

(* a pass that began with the flag set has flushed once and ends in park *)
C25_Witness ==
  \E c \in CPUs :
     /\ pc[c] = "park_lock"
     /\ hist.flush[c].flagged /\ hist.flush[c].done = 1
     /\ ~per_cpu[c].flush_vcpu_caches

(* C28: when a CPU consumes the reset flag that a cell start set (no CPU_ON *)
(* request is pending for it), the CPU with virt_id 0 resumes the guest at  *)
(* entry 0 and every other CPU of the cell goes to the off state, whatever  *)
(* CPU_ON and CPU_OFF calls the cell made before.                           *)
ConsumesStartReset(c) ==
  /\ pc[c] = "ce_reset" /\ Stepped(c)
  /\ per_cpu[c].reset /\ hist.req[c] = NoArgs
  /\ per_cpu[c].cell # ROOT_CELL

C28_RestartKeepsSecondariesOff ==
  [][\A c \in CPUs :
       ConsumesStartReset(c) =>
          IF per_cpu[c].virt_id = 0
          THEN /\ ~per_cpu'[c].wait_for_poweron
               /\ per_cpu'[c].cpu_on_entry = 0
          ELSE per_cpu'[c].wait_for_poweron]_vars

====
